---- MODULE Spec2Model ----
(***************************************************************************)
(* DelegInsumos: model of the stock / delivery core, the repositories over *)
(* the SQLite schema, and the in-memory alert engine.                      *)
(*                                                                         *)
(* The database is modelled by its committed contents.  A write that runs  *)
(* through DatabaseConnection.get_cursor(transaction=True) is one step:    *)
(* BEGIN IMMEDIATE serialises writers and COMMIT publishes the statement   *)
(* together with the work of its triggers.  Service calls that read first  *)
(* and write later (crear_insumo, crear_empleado, crear_entrega) are split *)
(* at the boundary between the reads and the write transaction, so that    *)
(* calls of two threads interleave there.                                  *)
(*                                                                         *)
(* Text is a sequence of one-character strings, so that strip, sanitize    *)
(* and the f-string formats are computed and not assumed.                  *)
(*                                                                         *)
(* The service calls keep the columns their properties read; the          *)
(* repository calls of the last section keep, in addition, the public     *)
(* code (generar_id), the price and the timestamps.  Columns no property  *)
(* reads (categoria, unidad_medida, cargo, ...) are left out.  The INSERT *)
(* of EmpleadoRepository.create names a column `nota` that no migration   *)
(* adds; Init takes the empleados table as deployed with that column.     *)
(***************************************************************************)
EXTENDS Integers, Sequences, FiniteSets, TLC

VARIABLES
    insumos,          \* table insumos: id -> row
    empleados,        \* table empleados: id -> row
    entregas,         \* table entregas: id -> row
    sqlite_sequence,  \* AUTOINCREMENT high-water mark of each table
    pc,               \* per thread: position inside a service call
    req,              \* per thread: locals of the call in flight
    last,             \* the step just taken: call, thread, arguments, outcome
    active_alerts,    \* MicroAlertasService.active_alerts: key -> Alert
    alert_history,    \* MicroAlertasService.alert_history
    now,              \* wall clock in seconds (datetime.now())
    sqlite_master,    \* schema objects of the database file, in creation order
    schema_migrations,\* table schema_migrations: the recorded versions
    migrador,         \* the migration runner: run number, position, phase
    cursor,           \* per thread: the get_cursor(transaction=True) block it is in
    write_lock,       \* the thread holding the database's write lock, or "none"
    local_connection, \* per thread: DatabaseConnection._local.connection, "open" or "none"
    fs,               \* the files: path -> content (live database, backups, temporaries)
    restauracion,     \* the restaurar_backup call: phase and locals
    backup_lock,      \* BackupService.backup_lock: its holder, or "none"
    timers,           \* the started threading.Timer objects not yet fired: id -> delay
    auto_run,         \* the automatic backup run of the timer thread
    backup_service    \* BackupService: auto_backup_enabled, backup_timer, counters

vars == <<insumos, empleados, entregas, sqlite_sequence, pc, req, last,
          active_alerts, alert_history, now,
          sqlite_master, schema_migrations, migrador, cursor, write_lock,
          local_connection,
          fs, restauracion, backup_lock, timers, auto_run, backup_service>>

dbVars == <<insumos, empleados, entregas, sqlite_sequence>>
alertVars == <<active_alerts, alert_history, now>>
schemaVars == <<sqlite_master, schema_migrations, migrador>>
cursorVars == <<cursor, write_lock, local_connection>>
serviceVars == <<pc, req, last>>
appVars == <<dbVars, alertVars, serviceVars>>
backupVars == <<fs, restauracion, backup_lock, timers, auto_run, backup_service>>
sysVars == <<schemaVars, cursorVars, backupVars>>

-----------------------------------------------------------------------------
(* Bounds *)

MaxInsumos == 1
MaxEmpleados == 2
MaxEntregas == 2
MaxNow == 1
MaxHistorial == 2
MaxCatalogo == 2
MaxCorridas == 3
MaxSentencias == 2
MaxBloques == 2
MaxRespaldos == 3
MaxRestauraciones == 1
MaxDatos == 2
MaxTimers == 5
MaxConmutaciones == 1
MaxFrecuentes == 11
MaxDias == 1

MainThread == "MainThread"
Threads == {"MainThread", "Thread-1"}

-----------------------------------------------------------------------------
(* Text *)

Digits == {"0", "1", "2", "3", "4", "5", "6", "7", "8", "9"}

DANGEROUS_CHARS == {"<", ">", "\"", "'", "\\", ";"}

sanitize_string(value) == SelectSeq(value, LAMBDA c : c \notin DANGEROUS_CHARS)

RECURSIVE lstrip(_)
lstrip(s) == IF s # <<>> /\ Head(s) = " " THEN lstrip(Tail(s)) ELSE s

RECURSIVE rstrip(_)
rstrip(s) == IF s # <<>> /\ s[Len(s)] = " " THEN rstrip(SubSeq(s, 1, Len(s) - 1)) ELSE s

strip(s) == rstrip(lstrip(s))

LowerChar(c) == CASE c = "P" -> "p" [] c = "T" -> "t" [] c = "A" -> "a" [] OTHER -> c

lower(s) == [k \in 1..Len(s) |-> LowerChar(s[k])]

DigitChar(d) == CASE d = 0 -> "0" [] d = 1 -> "1" [] d = 2 -> "2" [] d = 3 -> "3"
                  [] d = 4 -> "4" [] d = 5 -> "5" [] d = 6 -> "6" [] d = 7 -> "7"
                  [] d = 8 -> "8" [] d = 9 -> "9"

RECURSIVE str(_)
str(n) == IF n < 10 THEN <<DigitChar(n)>> ELSE str(n \div 10) \o <<DigitChar(n % 10)>>

-----------------------------------------------------------------------------
(* Exceptions *)

BusinessLogicKinds == {"BusinessLogicException", "InsufficientStockException",
                       "DuplicateRecordException", "RecordNotFoundException"}

DatabaseKinds == {"DatabaseException", "DatabaseConnectionException",
                  "DatabaseIntegrityException", "DatabaseMigrationException"}

NoDetail == <<>>

Outcome(op, t, args, kind, detail) ==
    [op |-> op, thread |-> t, args |-> args, kind |-> kind, detail |-> detail]

\* the subclasses of sqlite3.Error that the storage raises
Sqlite3Errors == {"sqlite3.IntegrityError", "sqlite3.OperationalError",
                  "sqlite3.ProgrammingError"}

\* get_cursor: what an exception raised inside the block becomes
get_cursor_raises(sqlite_error) ==
    IF sqlite_error = "sqlite3.IntegrityError" THEN "DatabaseIntegrityException"
    ELSE IF sqlite_error \in Sqlite3Errors \/ sqlite_error = "sqlite3.Error"
    THEN "DatabaseConnectionException"
    ELSE sqlite_error

\* the except clauses of InsumoRepository.create / EmpleadoRepository.create
repo_create_raises(raised, unique_failed) ==
    IF raised = "sqlite3.IntegrityError"
    THEN IF unique_failed THEN "DuplicateRecordException" ELSE "DatabaseException"
    ELSE "DatabaseException"

-----------------------------------------------------------------------------
(* Validators *)

Invalid == [ok |-> FALSE, value |-> <<>>]
Valid(v) == [ok |-> TRUE, value |-> v]

validate_required(value) == value # <<>> /\ strip(value) # <<>>

validate_string(value, min_length, max_length, required) ==
    IF required /\ ~validate_required(value) THEN Invalid
    ELSE IF ~required /\ value = <<>> THEN Valid(<<>>)
    ELSE LET v == sanitize_string(value)
         IN IF Len(v) < min_length \/ Len(v) > max_length THEN Invalid
            ELSE Valid(strip(v))

validate_integer(value, min_val) == value >= min_val

validate_cedula(value) ==
    IF ~validate_required(value) THEN Invalid
    ELSE LET cedula == strip(value)
         IN IF Len(cedula) \in 6..12 /\ \A k \in 1..Len(cedula) : cedula[k] \in Digits
            THEN Valid(cedula) ELSE Invalid

\* the fields of the supply form that the model keeps
validate_insumo_data(data) ==
    LET nombre == validate_string(data.nombre, 1, 100, TRUE)
    IN IF nombre.ok /\ validate_integer(data.cantidad_actual, 0)
                    /\ validate_integer(data.cantidad_minima, 0)
                    /\ validate_integer(data.cantidad_maxima, 1)
       THEN Valid([nombre |-> nombre.value,
                   cantidad_actual |-> data.cantidad_actual,
                   cantidad_minima |-> data.cantidad_minima,
                   cantidad_maxima |-> data.cantidad_maxima,
                   precio_unitario |-> "Decimal"])
       ELSE Invalid

validate_empleado_data(data) ==
    LET nombre == validate_string(data.nombre_completo, 2, 150, TRUE)
        cedula == validate_cedula(data.cedula)
    IN IF nombre.ok /\ cedula.ok
       THEN Valid([nombre_completo |-> nombre.value, cedula |-> cedula.value])
       ELSE Invalid

validate_entrega_data(data) ==
    IF validate_integer(data.empleado_id, 1) /\ validate_integer(data.insumo_id, 1)
                                             /\ validate_integer(data.cantidad, 1)
    THEN Valid(data) ELSE Invalid

\* Insumo.validate_data: the validators again, then the cross-field rules
Insumo_validate_data(insumo) ==
    /\ validate_insumo_data(insumo).ok
    /\ ~(insumo.cantidad_actual < 0)
    /\ ~(insumo.cantidad_minima < 0)
    /\ ~(insumo.cantidad_maxima < insumo.cantidad_minima)

create_insumo_from_form_data(form_data) ==
    LET validated_data == validate_insumo_data(form_data)
    IN IF validated_data.ok /\ Insumo_validate_data(validated_data.value)
       THEN validated_data ELSE Invalid

create_empleado_from_form_data(form_data) ==
    LET validated_data == validate_empleado_data(form_data)
    IN IF validated_data.ok /\ validate_empleado_data(validated_data.value).ok
       THEN validated_data ELSE Invalid

-----------------------------------------------------------------------------
(* Schema: constraints, triggers, views *)

NoRows == <<>>

\* CHECK constraints of table insumos
insumos_check(row) ==
    /\ row.cantidad_actual >= 0
    /\ row.cantidad_minima >= 0
    /\ row.cantidad_maxima >= row.cantidad_minima

\* UNIQUE(cedula) of table empleados: would a row with this cedula collide?
empleados_cedula_unique(emps, cedula, except_id) ==
    \A id \in DOMAIN emps : id = except_id \/ emps[id].cedula # cedula

\* tr_entregas_validate_stock: BEFORE INSERT ... WHEN stock < NEW.cantidad.
\* The WHEN clause is NULL, and the trigger silent, when the supply is missing.
tr_entregas_validate_stock(ins, new) ==
    /\ new.insumo_id \in DOMAIN ins
    /\ ins[new.insumo_id].cantidad_actual < new.cantidad

\* the AFTER INSERT trigger missing: the row is inserted, the stock stays
tr_entregas_update_stock_ausente(ins, new) == ins

\* the AFTER INSERT trigger taking one unit whatever the quantity delivered
tr_entregas_update_stock_de_a_uno(ins, new) ==
    [id \in DOMAIN ins |->
        IF id = new.insumo_id
        THEN [ins[id] EXCEPT !.cantidad_actual = @ - 1]
        ELSE ins[id]]

\* tr_entregas_update_stock: AFTER INSERT, UPDATE insumos ... WHERE id = NEW.insumo_id
tr_entregas_update_stock(ins, new) ==
    [id \in DOMAIN ins |->
        IF id = new.insumo_id
        THEN [ins[id] EXCEPT !.cantidad_actual = @ - new.cantidad]
        ELSE ins[id]]

SqlOk(ins) == [error |-> "none", insumos |-> ins]
SqlAbort(ins) == [error |-> "sqlite3.IntegrityError", insumos |-> ins]

\* the INSERT with no guard at write time: neither the BEFORE INSERT trigger
\* nor the CHECK on the updated supply row
InsertEntrega_sin_guardas(ins, emps, new) ==
    IF ~(new.cantidad > 0) THEN SqlAbort(ins)
    ELSE IF new.empleado_id \notin DOMAIN emps \/ new.insumo_id \notin DOMAIN ins
    THEN SqlAbort(ins)
    ELSE SqlOk(tr_entregas_update_stock(ins, new))

\* INSERT INTO entregas as SQLite runs it: BEFORE trigger, row constraints,
\* AFTER trigger, the CHECKs of the row the trigger updated.  An abort undoes
\* the whole statement.
InsertEntrega(ins, emps, new) ==
    IF tr_entregas_validate_stock(ins, new) THEN SqlAbort(ins)
    ELSE IF ~(new.cantidad > 0) THEN SqlAbort(ins)
    ELSE IF new.empleado_id \notin DOMAIN emps \/ new.insumo_id \notin DOMAIN ins
    THEN SqlAbort(ins)
    ELSE LET after == tr_entregas_update_stock(ins, new)
         IN IF insumos_check(after[new.insumo_id]) THEN SqlOk(after) ELSE SqlAbort(ins)

\* the CASE expression with < for <= in the second arm
estado_stock_estricto(row) ==
    IF row.cantidad_actual = 0 THEN "CRITICO"
    ELSE IF row.cantidad_actual < row.cantidad_minima THEN "BAJO"
    ELSE "NORMAL"

\* vw_stock_alerts: the CASE expression and the WHERE clause
estado_stock(row) ==
    IF row.cantidad_actual = 0 THEN "CRITICO"
    ELSE IF row.cantidad_actual <= row.cantidad_minima THEN "BAJO"
    ELSE "NORMAL"

vw_stock_alerts(ins) ==
    [id \in {i \in DOMAIN ins : ins[i].activo} |-> estado_stock(ins[id])]

\* vw_entregas_completas: the INNER JOINs drop a delivery whose employee or
\* supply row is missing
vw_entregas_completas(ents, emps, ins) ==
    {id \in DOMAIN ents : ents[id].empleado_id \in DOMAIN emps
                          /\ ents[id].insumo_id \in DOMAIN ins}

\* table with one more row / without some rows
Put(table, id, row) == [k \in DOMAIN table \cup {id} |-> IF k = id THEN row ELSE table[k]]
Drop(table, ids) == [k \in DOMAIN table \ ids |-> table[k]]

\* sqlite3 can bind int, float, str, bytes and None; anything else is refused
\* with sqlite3.ProgrammingError before the statement runs
sqlite_bindable(pytype) == pytype \in {"int", "float", "str", "bytes", "NoneType", "bool"}

\* service_exception_handler: domain exceptions pass, anything else is wrapped
service_exception_handler(raised) ==
    IF raised \in BusinessLogicKinds \cup DatabaseKinds \cup {"ValidationException"}
    THEN raised ELSE "ServiceException"

-----------------------------------------------------------------------------
(* Migrations: the schema objects each version creates *)

Versions == <<"001", "002", "003", "004", "005", "006">>

RECURSIVE create_if_not_exists(_, _)
create_if_not_exists(master, names) ==
    IF names = <<>> THEN master
    ELSE create_if_not_exists(
             IF Head(names) \in {master[k] : k \in DOMAIN master}
             THEN master ELSE Append(master, Head(names)),
             Tail(names))

drop_if_exists(master, name) == SelectSeq(master, LAMBDA n : n # name)

\* ALTER TABLE ... ADD COLUMN: `duplicate column name` is caught and ignored
RECURSIVE add_column(_, _)
add_column(master, columns) ==
    IF columns = <<>> THEN master
    ELSE add_column(
             IF Head(columns) \in {master[k] : k \in DOMAIN master}
             THEN master ELSE Append(master, Head(columns)),
             Tail(columns))

\* Migration.up of each version
up(version, master) ==
    CASE version = "001" ->
           create_if_not_exists(master, <<"insumos", "empleados", "entregas">>)
      [] version = "002" ->
           create_if_not_exists(master,
               <<"idx_insumos_categoria", "idx_insumos_stock_bajo", "idx_insumos_activos",
                 "idx_insumos_nombre", "idx_empleados_cedula", "idx_empleados_departamento",
                 "idx_empleados_activos", "idx_empleados_nombre", "idx_entregas_fecha",
                 "idx_entregas_empleado", "idx_entregas_insumo",
                 "idx_entregas_empleado_fecha", "idx_entregas_insumo_fecha">>)
      [] version = "003" ->
           create_if_not_exists(master,
               <<"tr_insumos_updated_at", "tr_entregas_update_stock",
                 "tr_entregas_validate_stock">>)
      [] version = "004" ->
           create_if_not_exists(master,
               <<"vw_stock_alerts", "vw_entregas_completas", "vw_resumen_inventario">>)
      [] version = "005" ->
           create_if_not_exists(
               add_column(master, <<"insumos.codigo", "empleados.codigo", "entregas.codigo">>),
               <<"uq_insumos_codigo", "uq_empleados_codigo", "uq_entregas_codigo">>)
      [] version = "006" ->
           create_if_not_exists(drop_if_exists(master, "vw_entregas_completas"),
                                <<"vw_entregas_completas">>)

\* MigrationManager._create_migrations_table
create_migrations_table(master) == create_if_not_exists(master, <<"schema_migrations">>)

\* the schema after every migration ran once, in order
RECURSIVE migrated(_, _)
migrated(master, k) ==
    IF k > Len(Versions) THEN master ELSE migrated(up(Versions[k], master), k + 1)

\* no version is ever taken as applied
is_migration_applied_nunca(version, applied) == FALSE

\* is_migration_applied: version in get_applied_migrations()
is_migration_applied(version, applied) == version \in {applied[k] : k \in DOMAIN applied}

\* the schema of the database in service: what the migrations build, and the
\* column nota of empleados, which the repository and the employee form use
\* and no migration adds
desplegada == add_column(migrated(create_migrations_table(<<>>), 1), <<"empleados.nota">>)

\* does the schema hold every one of these objects?
has_objects(master, names) == names \subseteq {master[k] : k \in DOMAIN master}

\* a thread outside any get_cursor block
CursorCerrado(evento, error, raised, bloques) ==
    [fase |-> "idle", working |-> <<>>, antes |-> <<>>, sentencias |-> 0,
     evento |-> evento, error |-> error, raised |-> raised, bloques |-> bloques]

MigradorEnReposo(corrida, evento, error) ==
    [corrida |-> corrida, pos |-> 0, fase |-> "idle", up_log |-> <<>>,
     evento |-> evento, error |-> error]

-----------------------------------------------------------------------------
(* Files and backups.  A file's content is the data it holds (a version     *)
(* number of the database), what SQLite makes of it ("ok": integrity_check  *)
(* passes and the three core tables are there; "malformed": truncated or    *)
(* damaged; "empty": a database with no table), and whether it is gzipped.  *)

DB == <<"db", 0>>
TEMP == <<"db.temp", 0>>
CURRENT_BACKUP == <<"db.backup", 0>>

Contenido(datos, estado, gz) == [datos |-> datos, estado |-> estado, gz |-> gz]

Vacio == Contenido(0, "empty", FALSE)

backup_interval_hours == 24
retry_minutes == 60
interval_seconds == backup_interval_hours * 3600
retry_seconds == retry_minutes * 60

\* _create_sqlite_backup: sqlite3.connect creates a missing source as an
\* empty database; Connection.backup raises on a malformed source
create_sqlite_backup(files, source, target) ==
    IF source \notin DOMAIN files
    THEN [ok |-> TRUE, fs |-> Put(Put(files, source, Vacio), target, Vacio)]
    ELSE IF files[source].estado = "malformed"
    THEN [ok |-> FALSE, fs |-> files]
    ELSE [ok |-> TRUE, fs |-> Put(files, target, [files[source] EXCEPT !.gz = FALSE])]

\* _compress_backup: on failure the backup stays as it is, uncompressed
compress_backup(content, falla) == IF falla THEN content ELSE [content EXCEPT !.gz = TRUE]

\* _validate_backup: PRAGMA integrity_check and the three core tables
validate_backup(files, path) == path \in DOMAIN files /\ files[path].estado = "ok"

\* the body of crear_backup_manual: exists check, copy, compress, validate
crear_backup_manual(files, target, falla_compresion) ==
    LET copia == create_sqlite_backup(files, DB, target)
        comprimido == Put(copia.fs, target, compress_backup(copia.fs[target], falla_compresion))
    IN IF DB \notin DOMAIN files THEN [ok |-> FALSE, fs |-> files]
       ELSE IF ~copia.ok THEN [ok |-> FALSE, fs |-> copia.fs]
       ELSE IF ~validate_backup(comprimido, target)
       THEN [ok |-> FALSE, fs |-> Drop(comprimido, {target})]
       ELSE [ok |-> TRUE, fs |-> comprimido]

\* copy_file_safe: False, and no destination, when the copy fails
copy_file_safe(files, source, destination, falla) ==
    IF falla \/ source \notin DOMAIN files THEN files
    ELSE Put(files, destination, files[source])

\* _schedule_next_backup: cancels the timer it remembers, starts a new one
schedule_next_backup(svc, tms) ==
    IF ~svc.auto_backup_enabled THEN [svc |-> svc, timers |-> tms]
    ELSE [svc |-> [svc EXCEPT !.backup_timer = svc.timer_seq + 1,
                              !.timer_seq = @ + 1],
          timers |-> Put(Drop(tms, {svc.backup_timer}), svc.timer_seq + 1, interval_seconds)]

\* no retry is ever scheduled
schedule_backup_retry_ausente(svc, tms) == [svc |-> svc, timers |-> tms]

\* _schedule_backup_retry: starts a timer; the one remembered is not cancelled
schedule_backup_retry(svc, tms) ==
    [svc |-> [svc EXCEPT !.backup_timer = svc.timer_seq + 1, !.timer_seq = @ + 1],
     timers |-> Put(tms, svc.timer_seq + 1, retry_seconds)]

SinRestauracion(evento, llamadas) ==
    [fase |-> "idle", backup_path |-> <<>>, antes |-> <<>>, con_fallas |-> FALSE,
     respaldo_valido |-> FALSE, evento |-> evento, llamadas |-> llamadas]

AutoRunEnReposo(evento) == [fase |-> "idle", path |-> <<>>, ok |-> FALSE, evento |-> evento]

-----------------------------------------------------------------------------
(* Inputs *)

Papel == <<"P", "a", "p", "e", "l">>
Ana == <<"A", "n", "a">>
SoloPuntoYComa == <<";", " ", " ", ";">>
Cedula1 == <<"1", "2", "3", "4", "5", "6">>
Cedula2 == <<"6", "5", "4", "3", "2", "1">>
CedulaCorta == <<"1", "2">>

InsumoForm(nombre, actual, minima, maxima) ==
    [nombre |-> nombre, cantidad_actual |-> actual,
     cantidad_minima |-> minima, cantidad_maxima |-> maxima]

InsumoForms == {InsumoForm(Papel, 10, 5, 50), InsumoForm(Papel, 2, 10, 50),
                InsumoForm(Papel, 10, 5, 3)}

StockInputs == {-1, 3}

EmpleadoForms == {[nombre_completo |-> Ana, cedula |-> Cedula1],
                  [nombre_completo |-> Ana, cedula |-> Cedula2],
                  [nombre_completo |-> Ana, cedula |-> CedulaCorta]}

EmpleadoFormsEntrega == {[nombre_completo |-> Ana, cedula |-> Cedula1],
                         [nombre_completo |-> SoloPuntoYComa, cedula |-> Cedula1]}

CantidadesEntrega == {0, 2, 6}

-----------------------------------------------------------------------------
(* State after construction: migrated empty database, no alerts, idle threads *)

NoReq == <<>>

Init ==
    /\ insumos = NoRows
    /\ empleados = NoRows
    /\ entregas = NoRows
    /\ sqlite_sequence = [insumos |-> 0, empleados |-> 0, entregas |-> 0]
    /\ pc = [t \in Threads |-> "idle"]
    /\ req = [t \in Threads |-> NoReq]
    /\ last = Outcome("init", MainThread, NoReq, "ok", NoDetail)
    /\ active_alerts = <<>>
    /\ alert_history = <<>>
    /\ now = 0
    /\ sqlite_master = desplegada
    /\ schema_migrations = Versions
    /\ migrador = MigradorEnReposo(1, "fin", "none")
    /\ cursor = [t \in Threads |-> CursorCerrado("init", "none", "none", 0)]
    /\ write_lock = "none"
    /\ local_connection = [t \in Threads |-> "none"]
    /\ fs = Put(<<>>, DB, Contenido(1, "ok", FALSE))
    /\ restauracion = SinRestauracion("init", 0)
    /\ backup_lock = "none"
    /\ timers = Put(<<>>, 1, interval_seconds)
    /\ auto_run = AutoRunEnReposo("init")
    /\ backup_service = [auto_backup_enabled |-> TRUE, backup_timer |-> 1, timer_seq |-> 1,
                         backup_seq |-> 0, datos |-> 1, conmutaciones |-> 0]

\* a service call leaves the schema and the migration records alone
Returns(op, t, args, kind, detail) ==
    /\ last' = Outcome(op, t, args, kind, detail)
    /\ pc' = [pc EXCEPT ![t] = "idle"]
    /\ req' = [req EXCEPT ![t] = NoReq]
    /\ UNCHANGED sysVars

Raises(op, t, args, kind, detail) ==
    Returns(op, t, args, service_exception_handler(kind), detail)

Continues(op, t, args, position, locals) ==
    /\ last' = Outcome(op, t, args, "pending", NoDetail)
    /\ pc' = [pc EXCEPT ![t] = position]
    /\ req' = [req EXCEPT ![t] = locals]
    /\ UNCHANGED sysVars

Duplicate(entity, field, value) == [entity |-> entity, field |-> field, value |-> value]

-----------------------------------------------------------------------------
(* MicroInsumosService *)

\* crear_insumo, up to the call of the repository
CrearInsumoVerificar(t, form_data) ==
    /\ pc[t] = "idle"
    /\ LET insumo == create_insumo_from_form_data(form_data)
           existing == {id \in DOMAIN insumos :
                           /\ insumos[id].activo
                           /\ lower(insumos[id].nombre) = lower(insumo.value.nombre)}
       IN IF ~insumo.ok
          THEN Raises("crear_insumo", t, form_data, "ValidationException", NoDetail)
          ELSE IF existing # {}
          THEN Raises("crear_insumo", t, form_data, "DuplicateRecordException",
                      Duplicate("insumo", "nombre", insumo.value.nombre))
          ELSE Continues("crear_insumo", t, form_data, "insumo_insert", insumo.value)
    /\ UNCHANGED <<dbVars, alertVars>>

\* InsumoRepository.create and the return of crear_insumo
CrearInsumoInsertar(t) ==
    /\ pc[t] = "insumo_insert"
    /\ LET id == sqlite_sequence.insumos + 1
           row == [nombre |-> req[t].nombre,
                   cantidad_actual |-> req[t].cantidad_actual,
                   cantidad_minima |-> req[t].cantidad_minima,
                   cantidad_maxima |-> req[t].cantidad_maxima,
                   activo |-> TRUE]
       IN IF insumos_check(row)
          THEN /\ insumos' = Put(insumos, id, row)
               /\ sqlite_sequence' = [sqlite_sequence EXCEPT !.insumos = id]
               /\ Returns("crear_insumo", t, req[t], "ok", NoDetail)
          ELSE /\ UNCHANGED <<insumos, sqlite_sequence>>
               /\ Raises("crear_insumo", t, req[t],
                         repo_create_raises(get_cursor_raises("sqlite3.IntegrityError"), FALSE),
                         NoDetail)
    /\ UNCHANGED <<empleados, entregas, alertVars>>

\* the columns InsumoRepository.update accepts
updateable_fields ==
    {"nombre", "categoria", "cantidad_actual", "cantidad_minima", "cantidad_maxima",
     "unidad_medida", "precio_unitario", "proveedor", "activo"}

\* a SET list that also puts every column the map leaves out back to the
\* default of the form
update_set_completo(row, data) ==
    [f \in DOMAIN row |->
        IF f \in DOMAIN data \cap updateable_fields THEN data[f]
        ELSE IF f = "cantidad_actual" THEN 0 ELSE row[f]]

\* UPDATE insumos SET f = ? for each accepted column f of the map, in the
\* columns the model keeps
update_set(row, data) ==
    [f \in DOMAIN row |->
        IF f \in DOMAIN data \cap updateable_fields THEN data[f] ELSE row[f]]

\* tr_insumos_updated_at: AFTER UPDATE ON insumos, SET fecha_actualizacion =
\* CURRENT_TIMESTAMP, where the model keeps that column
tr_insumos_updated_at(row) ==
    IF "fecha_actualizacion" \in DOMAIN row
    THEN [row EXCEPT !.fecha_actualizacion = now] ELSE row

\* InsumoRepository.update: the row must exist; without an accepted column
\* no statement runs and the result is False; every value must bind and the
\* updated row must pass the CHECKs
InsumoRepository_update(ins, id, data, pytypes) ==
    IF id \notin DOMAIN ins
    THEN [raised |-> "RecordNotFoundException", returned |-> FALSE, insumos |-> ins]
    ELSE IF DOMAIN data \cap updateable_fields = {}
    THEN [raised |-> "none", returned |-> FALSE, insumos |-> ins]
    ELSE IF \E ty \in pytypes : ~sqlite_bindable(ty)
    THEN [raised |-> "DatabaseException", returned |-> FALSE, insumos |-> ins]
    ELSE IF ~insumos_check(update_set(ins[id], data))
    THEN [raised |-> "DatabaseException", returned |-> FALSE, insumos |-> ins]
    ELSE [raised |-> "none", returned |-> TRUE,
          insumos |-> Put(ins, id, tr_insumos_updated_at(update_set(ins[id], data)))]

\* actualizar_insumo
ActualizarInsumo(t, insumo_id, form_data) ==
    /\ pc[t] = "idle"
    /\ LET args == [insumo_id |-> insumo_id, form_data |-> form_data]
           validated_data == validate_insumo_data(form_data)
           existing_same_name == {id \in DOMAIN insumos :
                           /\ insumos[id].activo
                           /\ lower(insumos[id].nombre) = lower(validated_data.value.nombre)}
           result == InsumoRepository_update(insumos, insumo_id, validated_data.value,
                         {"str", "int", validated_data.value.precio_unitario})
       IN IF insumo_id \notin DOMAIN insumos
          THEN /\ Raises("actualizar_insumo", t, args, "RecordNotFoundException", NoDetail)
               /\ UNCHANGED insumos
          ELSE IF ~validated_data.ok
          THEN /\ Raises("actualizar_insumo", t, args, "ValidationException", NoDetail)
               /\ UNCHANGED insumos
          ELSE IF existing_same_name # {} /\ (CHOOSE id \in existing_same_name :
                       \A other \in existing_same_name : id <= other) # insumo_id
          THEN /\ Raises("actualizar_insumo", t, args, "DuplicateRecordException",
                         Duplicate("insumo", "nombre", validated_data.value.nombre))
               /\ UNCHANGED insumos
          ELSE IF result.raised # "none"
          THEN /\ Raises("actualizar_insumo", t, args, result.raised, NoDetail)
               /\ UNCHANGED insumos
          ELSE /\ Returns("actualizar_insumo", t, args, "ok", NoDetail)
               /\ insumos' = result.insumos
    /\ UNCHANGED <<empleados, entregas, sqlite_sequence, alertVars>>

\* actualizar_stock writing whatever it is given, past the service's sign
\* test and the table's CHECK
ActualizarStock_sin_validar(t, insumo_id, nueva_cantidad) ==
    /\ pc[t] = "idle"
    /\ insumo_id \in DOMAIN insumos
    /\ Returns("actualizar_stock", t,
               [insumo_id |-> insumo_id, nueva_cantidad |-> nueva_cantidad], "ok", NoDetail)
    /\ insumos' = [insumos EXCEPT ![insumo_id].cantidad_actual = nueva_cantidad]
    /\ UNCHANGED <<empleados, entregas, sqlite_sequence, alertVars>>

\* actualizar_stock
ActualizarStock(t, insumo_id, nueva_cantidad) ==
    /\ pc[t] = "idle"
    /\ LET args == [insumo_id |-> insumo_id, nueva_cantidad |-> nueva_cantidad]
           result == InsumoRepository_update(insumos, insumo_id,
                         [cantidad_actual |-> nueva_cantidad], {"int"})
       IN IF insumo_id \notin DOMAIN insumos
          THEN /\ Raises("actualizar_stock", t, args, "RecordNotFoundException", NoDetail)
               /\ UNCHANGED insumos
          ELSE IF nueva_cantidad < 0
          THEN /\ Raises("actualizar_stock", t, args, "BusinessLogicException", NoDetail)
               /\ UNCHANGED insumos
          ELSE IF result.raised # "none"
          THEN /\ Raises("actualizar_stock", t, args, result.raised, NoDetail)
               /\ UNCHANGED insumos
          ELSE /\ Returns("actualizar_stock", t, args, "ok", NoDetail)
               /\ insumos' = result.insumos
    /\ UNCHANGED <<empleados, entregas, sqlite_sequence, alertVars>>

\* eliminar_insumo: soft delete clears activo; hard delete removes the row
\* and, by ON DELETE CASCADE, its deliveries
EliminarInsumo(t, insumo_id, soft_delete) ==
    /\ pc[t] = "idle"
    /\ LET args == [insumo_id |-> insumo_id, soft_delete |-> soft_delete]
       IN IF insumo_id \notin DOMAIN insumos
          THEN /\ Raises("eliminar_insumo", t, args, "RecordNotFoundException", NoDetail)
               /\ UNCHANGED <<insumos, entregas>>
          ELSE IF soft_delete
          THEN /\ Returns("eliminar_insumo", t, args, "ok", NoDetail)
               /\ insumos' = [insumos EXCEPT ![insumo_id].activo = FALSE]
               /\ UNCHANGED entregas
          ELSE /\ Returns("eliminar_insumo", t, args, "ok", NoDetail)
               /\ insumos' = Drop(insumos, {insumo_id})
               /\ entregas' = Drop(entregas,
                                   {e \in DOMAIN entregas : entregas[e].insumo_id = insumo_id})
    /\ UNCHANGED <<empleados, sqlite_sequence, alertVars>>

-----------------------------------------------------------------------------
(* MicroEmpleadosService *)

\* crear_empleado, up to the call of the repository
CrearEmpleadoVerificar(t, form_data) ==
    /\ pc[t] = "idle"
    /\ sqlite_sequence.empleados < MaxEmpleados
    /\ LET empleado == create_empleado_from_form_data(form_data)
           existing == {id \in DOMAIN empleados :
                           empleados[id].cedula = empleado.value.cedula}
       IN IF ~empleado.ok
          THEN Raises("crear_empleado", t, form_data, "ValidationException", NoDetail)
          ELSE IF existing # {}
          THEN Raises("crear_empleado", t, form_data, "DuplicateRecordException",
                      Duplicate("empleado", "cédula", empleado.value.cedula))
          ELSE Continues("crear_empleado", t, form_data, "empleado_insert", empleado.value)
    /\ UNCHANGED <<dbVars, alertVars>>

\* EmpleadoRepository.create and the return of crear_empleado
CrearEmpleadoInsertar(t) ==
    /\ pc[t] = "empleado_insert"
    /\ LET id == sqlite_sequence.empleados + 1
           row == [nombre_completo |-> req[t].nombre_completo,
                   cedula |-> req[t].cedula,
                   activo |-> TRUE]
       IN IF ~has_objects(sqlite_master, {"empleados.nota", "empleados.codigo"})
          THEN /\ UNCHANGED <<empleados, sqlite_sequence>>
               /\ Raises("crear_empleado", t, req[t],
                         repo_create_raises(get_cursor_raises("sqlite3.OperationalError"),
                                            FALSE), NoDetail)
          ELSE IF empleados_cedula_unique(empleados, row.cedula, 0)
          THEN /\ id <= MaxEmpleados
               /\ empleados' = Put(empleados, id, row)
               /\ sqlite_sequence' = [sqlite_sequence EXCEPT !.empleados = id]
               /\ Returns("crear_empleado", t, req[t], "ok", NoDetail)
          ELSE LET raised == repo_create_raises(
                                 get_cursor_raises("sqlite3.IntegrityError"), TRUE)
               IN /\ UNCHANGED <<empleados, sqlite_sequence>>
                  /\ Raises("crear_empleado", t, req[t], raised,
                            IF raised = "DuplicateRecordException"
                            THEN Duplicate("empleado", "cédula", row.cedula)
                            ELSE NoDetail)
    /\ UNCHANGED <<insumos, entregas, alertVars>>

\* actualizar_empleado: one validation pass, duplicate check, UPDATE
ActualizarEmpleado(t, empleado_id, form_data) ==
    /\ pc[t] = "idle"
    /\ LET args == [empleado_id |-> empleado_id, form_data |-> form_data]
           validated_data == validate_empleado_data(form_data)
           existing_same_cedula == {id \in DOMAIN empleados :
                           empleados[id].cedula = validated_data.value.cedula}
       IN IF empleado_id \notin DOMAIN empleados
          THEN /\ Raises("actualizar_empleado", t, args, "RecordNotFoundException", NoDetail)
               /\ UNCHANGED empleados
          ELSE IF ~validated_data.ok
          THEN /\ Raises("actualizar_empleado", t, args, "ValidationException", NoDetail)
               /\ UNCHANGED empleados
          ELSE IF existing_same_cedula \ {empleado_id} # {}
          THEN /\ Raises("actualizar_empleado", t, args, "DuplicateRecordException",
                         Duplicate("empleado", "cédula", validated_data.value.cedula))
               /\ UNCHANGED empleados
          ELSE IF ~empleados_cedula_unique(empleados, validated_data.value.cedula, empleado_id)
          THEN /\ Raises("actualizar_empleado", t, args, "DatabaseException", NoDetail)
               /\ UNCHANGED empleados
          ELSE /\ Returns("actualizar_empleado", t, args, "ok", NoDetail)
               /\ empleados' = [empleados EXCEPT
                       ![empleado_id].nombre_completo = validated_data.value.nombre_completo,
                       ![empleado_id].cedula = validated_data.value.cedula]
    /\ UNCHANGED <<insumos, entregas, sqlite_sequence, alertVars>>

\* a hard delete that does not look for deliveries first: the row goes and
\* ON DELETE CASCADE takes the employee's deliveries with it
EmpleadoRepository_delete_sin_conteo(emps, ents, empleado_id) ==
    [raised |-> "none",
     empleados |-> Drop(emps, {empleado_id}),
     entregas |-> Drop(ents, {e \in DOMAIN ents : ents[e].empleado_id = empleado_id})]

\* EmpleadoRepository.delete(soft_delete=False): count the deliveries, refuse
\* if there are any, else DELETE.  The refusal is raised inside the method's
\* own try block and leaves it through `except Exception`.
EmpleadoRepository_delete(emps, ents, empleado_id) ==
    LET entregas_count == Cardinality({e \in DOMAIN ents : ents[e].empleado_id = empleado_id})
    IN IF entregas_count > 0
       THEN [raised |-> "DatabaseException", empleados |-> emps, entregas |-> ents]
       ELSE [raised |-> "none",
             empleados |-> Drop(emps, {empleado_id}),
             entregas |-> Drop(ents, {e \in DOMAIN ents : ents[e].empleado_id = empleado_id})]

\* eliminar_empleado
EliminarEmpleado(t, empleado_id, soft_delete) ==
    /\ pc[t] = "idle"
    /\ LET args == [empleado_id |-> empleado_id, soft_delete |-> soft_delete]
           result == EmpleadoRepository_delete(empleados, entregas, empleado_id)
       IN IF empleado_id \notin DOMAIN empleados
          THEN /\ Raises("eliminar_empleado", t, args, "RecordNotFoundException", NoDetail)
               /\ UNCHANGED <<empleados, entregas>>
          ELSE IF soft_delete
          THEN /\ Returns("eliminar_empleado", t, args, "ok", NoDetail)
               /\ empleados' = [empleados EXCEPT ![empleado_id].activo = FALSE]
               /\ UNCHANGED entregas
          ELSE IF result.raised # "none"
          THEN /\ Raises("eliminar_empleado", t, args, result.raised, NoDetail)
               /\ UNCHANGED <<empleados, entregas>>
          ELSE /\ Returns("eliminar_empleado", t, args, "ok", NoDetail)
               /\ empleados' = result.empleados
               /\ entregas' = result.entregas
    /\ UNCHANGED <<insumos, sqlite_sequence, alertVars>>

\* validar_empleado_para_entrega: the reasons an employee cannot receive
issues(empleado) ==
    (IF ~empleado.activo THEN <<"Empleado inactivo">> ELSE <<>>)
    \o (IF strip(empleado.nombre_completo) = <<>> THEN <<"Nombre incompleto">> ELSE <<>>)

\* eligibility that looks at the active flag only
can_receive_supplies_solo_activo(empleado) == empleado.activo

\* Empleado.can_receive_supplies
can_receive_supplies(empleado) ==
    empleado.activo /\ strip(empleado.nombre_completo) # <<>>

-----------------------------------------------------------------------------
(* MicroEntregasService *)

\* crear_entrega, up to the call of the repository: validation, the employee
\* check and the stock check (all reads)
CrearEntregaVerificar(t, form_data) ==
    /\ pc[t] = "idle"
    /\ sqlite_sequence.entregas < MaxEntregas
    /\ LET validated_data == validate_entrega_data(form_data)
           empleado == empleados[form_data.empleado_id]
           insumo == insumos[form_data.insumo_id]
       IN IF ~validated_data.ok
          THEN Raises("crear_entrega", t, form_data, "ValidationException", NoDetail)
          ELSE IF form_data.empleado_id \notin DOMAIN empleados
          THEN Raises("crear_entrega", t, form_data, "RecordNotFoundException", NoDetail)
          ELSE IF ~can_receive_supplies(empleado)
          THEN Raises("crear_entrega", t, form_data, "BusinessLogicException",
                      [issues |-> issues(empleado)])
          ELSE IF form_data.insumo_id \notin DOMAIN insumos
          THEN Raises("crear_entrega", t, form_data, "RecordNotFoundException", NoDetail)
          ELSE IF ~(insumo.cantidad_actual >= form_data.cantidad)
          THEN Raises("crear_entrega", t, form_data, "InsufficientStockException",
                      [insumo_nombre |-> insumo.nombre,
                       stock_actual |-> insumo.cantidad_actual,
                       cantidad |-> form_data.cantidad])
          ELSE Continues("crear_entrega", t, form_data, "entrega_insert", validated_data.value)
    /\ UNCHANGED <<dbVars, alertVars>>

\* the trigger's abort reported as the business error of the pre-check
EntregaRepository_create_raises_negocio(error) ==
    IF error = "sqlite3.IntegrityError" THEN "InsufficientStockException"
    ELSE "DatabaseException"

\* EntregaRepository.create, `except Exception`: whatever the INSERT raised,
\* the translated DatabaseIntegrityException included, is raised again as
\* DatabaseException
EntregaRepository_create_raises(error) == "DatabaseException"

\* EntregaRepository.create: one transaction holding the INSERT and its triggers
CrearEntregaInsertar(t) ==
    /\ pc[t] = "entrega_insert"
    /\ LET id == sqlite_sequence.entregas + 1
           result == InsertEntrega(insumos, empleados, req[t])
       IN IF result.error = "none"
          THEN /\ id <= MaxEntregas
               /\ entregas' = Put(entregas, id,
                                  [f \in DOMAIN req[t] \cup {"fecha_entrega"} |->
                                      IF f = "fecha_entrega" THEN now ELSE req[t][f]])
               /\ insumos' = result.insumos
               /\ sqlite_sequence' = [sqlite_sequence EXCEPT !.entregas = id]
               /\ Continues("crear_entrega", t, req[t], "entrega_readback",
                            [entrega_id |-> id, form_data |-> req[t]])
          ELSE /\ UNCHANGED <<entregas, insumos, sqlite_sequence>>
               /\ Raises("crear_entrega", t, req[t],
                         EntregaRepository_create_raises(result.error), NoDetail)
    /\ UNCHANGED <<empleados, alertVars>>

\* obtener_entrega(entrega_id) and the return of crear_entrega
CrearEntregaLeer(t) ==
    /\ pc[t] = "entrega_readback"
    /\ IF req[t].entrega_id \in vw_entregas_completas(entregas, empleados, insumos)
       THEN Returns("crear_entrega", t, req[t].form_data, "ok", NoDetail)
       ELSE Raises("crear_entrega", t, req[t].form_data, "RecordNotFoundException", NoDetail)
    /\ UNCHANGED <<dbVars, alertVars>>

\* a delete that gives the delivered quantity back to the supply
EntregaRepository_delete_devuelve(ins, ents, entrega_id) ==
    [insumos |-> [id \in DOMAIN ins |->
                     IF id = ents[entrega_id].insumo_id
                     THEN [ins[id] EXCEPT !.cantidad_actual = @ + ents[entrega_id].cantidad]
                     ELSE ins[id]],
     entregas |-> Drop(ents, {entrega_id})]

\* EntregaRepository.delete: DELETE FROM entregas WHERE id = ?
EntregaRepository_delete(ins, ents, entrega_id) ==
    [insumos |-> ins, entregas |-> Drop(ents, {entrega_id})]

\* eliminar_entrega
EliminarEntrega(t, entrega_id) ==
    /\ pc[t] = "idle"
    /\ LET args == [entrega_id |-> entrega_id]
           result == EntregaRepository_delete(insumos, entregas, entrega_id)
       IN IF entrega_id \notin vw_entregas_completas(entregas, empleados, insumos)
          THEN /\ Raises("eliminar_entrega", t, args, "RecordNotFoundException", NoDetail)
               /\ UNCHANGED <<insumos, entregas>>
          ELSE /\ Returns("eliminar_entrega", t, args, "ok", NoDetail)
               /\ insumos' = result.insumos
               /\ entregas' = result.entregas
    /\ UNCHANGED <<empleados, sqlite_sequence, alertVars>>

-----------------------------------------------------------------------------
(* MicroAlertasService *)

\* umbral_entregas_frecuentes_dia when the configuration does not set it
umbral_entregas_frecuentes_dia == 5

\* the seconds of a day, and DATE(...) / date.today() of a time in seconds
\* (the database and the application are taken to be in one time zone)
DIA == 24 * 3600
DATE(t) == t \div DIA

\* date.today().isoformat() at second t, the clock starting on 2025-01-01
today_iso(t) ==
    <<"2", "0", "2", "5", "-", "0", "1", "-">>
        \o (IF DATE(t) + 1 < 10 THEN <<"0">> ELSE <<>>) \o str(DATE(t) + 1)

\* the comparison with the threshold strict
es_frecuente_estricto(count, umbral) == count > umbral

\* info['count'] >= umbral_entregas_dia
es_frecuente(count, umbral) == count >= umbral

SYS(entity_id) == IF entity_id = 0 THEN <<"SYS">> ELSE str(entity_id)

\* _make_alert_key: f"{alert_type.value}:{entity_id or 'SYS'}:{extra or ''}"
make_alert_key(alert_type, entity_id, extra) ==
    <<alert_type, ":">> \o SYS(entity_id) \o <<":">> \o extra

\* Alert.__init__ at second t; entity_id 0 stands for None
Alert(alert_type, severity, entity_id, t) ==
    [id |-> <<alert_type, "_">> \o SYS(entity_id) \o <<"_">> \o str(t),
     alert_type |-> alert_type,
     severity |-> severity,
     entity_id |-> entity_id,
     created_at |-> t,
     resolved |-> FALSE,
     resolved_at |-> -1,
     resolved_by |-> ""]

\* _add_alert: the map entry under the key is (over)written, the history grows
add_alert(st, alert, key) ==
    [active |-> Put(st.active, key, alert), history |-> Append(st.history, alert)]

\* the loops of _verificar_alertas_stock: one alert per supply whose key is
\* not in the map yet
RECURSIVE add_stock_alerts(_, _, _, _, _)
add_stock_alerts(st, ids, alert_type, severity, t) ==
    IF ids = {} THEN st
    ELSE LET id == CHOOSE x \in ids : \A y \in ids : x <= y
             key == make_alert_key(alert_type, id, <<>>)
         IN add_stock_alerts(
                IF key \notin DOMAIN st.active
                THEN add_alert(st, Alert(alert_type, severity, id, t), key) ELSE st,
                ids \ {id}, alert_type, severity, t)

\* obtener_alertas_stock: the rows of vw_stock_alerts by estado_stock
obtener_alertas_stock(ins) ==
    [criticas |-> {id \in DOMAIN vw_stock_alerts(ins) : vw_stock_alerts(ins)[id] = "CRITICO"},
     bajas |-> {id \in DOMAIN vw_stock_alerts(ins) : vw_stock_alerts(ins)[id] = "BAJO"}]

\* a pass that drops the stock alerts whose condition no longer holds
verificar_alertas_stock_depurando(st, ins, falla, t) ==
    LET vigentes ==
            {make_alert_key("STOCK_CRITICO", i, <<>>) : i \in obtener_alertas_stock(ins).criticas}
            \cup {make_alert_key("STOCK_BAJO", i, <<>>) : i \in obtener_alertas_stock(ins).bajas}
        quedan == {k \in DOMAIN st.active :
                      \/ st.active[k].alert_type \notin {"STOCK_CRITICO", "STOCK_BAJO"}
                      \/ k \in vigentes}
        st0 == [active |-> [k \in quedan |-> st.active[k]], history |-> st.history]
    IN IF falla
       THEN add_alert(st0, Alert("SISTEMA_ERROR", "HIGH", 0, t),
                      make_alert_key("SISTEMA_ERROR", 0, <<>>))
       ELSE add_stock_alerts(
                add_stock_alerts(st0, obtener_alertas_stock(ins).criticas,
                                 "STOCK_CRITICO", "CRITICAL", t),
                obtener_alertas_stock(ins).bajas, "STOCK_BAJO", "HIGH", t)

\* _verificar_alertas_stock; `falla`: the read of the view raises
verificar_alertas_stock(st, ins, falla, t) ==
    IF falla
    THEN add_alert(st, Alert("SISTEMA_ERROR", "HIGH", 0, t),
                   make_alert_key("SISTEMA_ERROR", 0, <<>>))
    ELSE add_stock_alerts(
             add_stock_alerts(st, obtener_alertas_stock(ins).criticas,
                              "STOCK_CRITICO", "CRITICAL", t),
             obtener_alertas_stock(ins).bajas, "STOCK_BAJO", "HIGH", t)

RECURSIVE add_delivery_alerts(_, _, _)
add_delivery_alerts(st, ids, t) ==
    IF ids = {} THEN st
    ELSE LET id == CHOOSE x \in ids : \A y \in ids : x <= y
             key == make_alert_key("ENTREGAS_FRECUENTES", id, today_iso(t))
         IN add_delivery_alerts(
                IF key \notin DOMAIN st.active
                THEN add_alert(st, Alert("ENTREGAS_FRECUENTES", "MEDIUM", id, t), key) ELSE st,
                ids \ {id}, t)

\* obtener_entregas_hoy: the rows of vw_entregas_completas with
\* DATE(fecha_entrega) BETWEEN today AND today
entregas_hoy(ents, emps, ins, t) ==
    {d \in vw_entregas_completas(ents, emps, ins) : DATE(ents[d].fecha_entrega) = DATE(t)}

\* _verificar_alertas_entregas; `falla`: the read of today's deliveries raises
verificar_alertas_entregas(st, ents, emps, ins, falla, t) ==
    IF falla
    THEN add_alert(st, Alert("SISTEMA_ERROR", "MEDIUM", 0, t),
                   make_alert_key("SISTEMA_ERROR", 0, <<>>))
    ELSE LET hoy == entregas_hoy(ents, emps, ins, t)
             count(i) == Cardinality({d \in hoy : ents[d].insumo_id = i})
         IN add_delivery_alerts(st,
                {i \in {ents[d].insumo_id : d \in hoy} :
                    es_frecuente(count(i), umbral_entregas_frecuentes_dia)}, t)

\* the read of _verificar_consistencia_datos that raises, if one does
FallasConsistencia == {"ninguna", "listar_insumos", "listar_empleados"}

\* _verificar_consistencia_datos: how many inconsistencies the data holds;
\* a read that raises is logged and the list built so far is returned
verificar_consistencia_datos(ins, emps, falla) ==
    IF falla = "listar_insumos" THEN 0
    ELSE Cardinality({i \in DOMAIN ins : ins[i].activo /\ ins[i].cantidad_actual < 0})
         + Cardinality({i \in DOMAIN ins :
                           ins[i].activo /\ ins[i].cantidad_minima > ins[i].cantidad_maxima})
         + (IF falla = "listar_empleados" THEN 0
            ELSE Cardinality({e \in DOMAIN emps :
                                 emps[e].activo /\ strip(emps[e].cedula) = <<>>}))

\* _verificar_alertas_sistema: one alert per inconsistency, each added
\* under the key of its type
RECURSIVE verificar_alertas_sistema(_, _, _)
verificar_alertas_sistema(st, inconsistencies, t) ==
    IF inconsistencies = 0 THEN st
    ELSE verificar_alertas_sistema(
             add_alert(st, Alert("DATA_INCONSISTENCY", "HIGH", 0, t),
                       make_alert_key("DATA_INCONSISTENCY", 0, <<>>)),
             inconsistencies - 1, t)

\* datetime.now() of a call: not before the last reading of the clock
Clock == {now} \cup {t \in {now + 1} : t <= MaxNow}

\* verificar_todas_las_alertas: stock, deliveries, system, in this order
VerificarTodasLasAlertas(th, falla_stock, falla_entregas, falla_consistencia) ==
    /\ pc[th] = "idle"
    /\ Len(alert_history) < MaxHistorial
    /\ \E t \in Clock :
        LET st0 == [active |-> active_alerts, history |-> alert_history]
            st1 == verificar_alertas_stock(st0, insumos, falla_stock, t)
            st2 == verificar_alertas_entregas(st1, entregas, empleados, insumos,
                                              falla_entregas, t)
            st3 == verificar_alertas_sistema(
                       st2, verificar_consistencia_datos(insumos, empleados,
                                                         falla_consistencia), t)
        IN /\ active_alerts' = st3.active
           /\ alert_history' = st3.history
           /\ now' = t
           /\ Returns("verificar_todas_las_alertas", th,
                      [falla_stock |-> falla_stock, falla_entregas |-> falla_entregas,
                       falla_consistencia |-> falla_consistencia],
                      "ok", [total_new_alerts |-> Len(st3.history) - Len(alert_history)])
    /\ UNCHANGED dbVars

\* obtener_alertas_activas: the unresolved alerts of the map (the order of
\* the list, by severity and creation time, is not modelled)
obtener_alertas_activas(alerts) ==
    {alerts[k] : k \in {x \in DOMAIN alerts : ~alerts[x].resolved}}

\* Alert.resolve
resolve(alert, resolved_by, t) ==
    [alert EXCEPT !.resolved = TRUE, !.resolved_at = t,
                  !.resolved_by = IF resolved_by = "" THEN "Sistema" ELSE resolved_by]

\* the lookup of resolver_alerta: `alert_id in self.active_alerts`
alerta_encontrada(alerts, alert_id) == alert_id \in DOMAIN alerts

\* resolver_alerta
ResolverAlerta(th, alert_id, resolved_by) ==
    /\ pc[th] = "idle"
    /\ LET args == [alert_id |-> alert_id, resolved_by |-> resolved_by]
       IN IF ~alerta_encontrada(active_alerts, alert_id)
          THEN /\ Raises("resolver_alerta", th, args, "BusinessLogicException", NoDetail)
               /\ UNCHANGED alertVars
          ELSE IF active_alerts[alert_id].resolved
          THEN /\ Returns("resolver_alerta", th, args, "ok", NoDetail)
               /\ UNCHANGED alertVars
          ELSE \E t \in Clock :
               LET alert == active_alerts[alert_id]
               IN /\ Returns("resolver_alerta", th, args, "ok", NoDetail)
                  /\ active_alerts' = [active_alerts EXCEPT
                                          ![alert_id] = resolve(alert, resolved_by, t)]
                  /\ alert_history' = [k \in DOMAIN alert_history |->
                                          IF alert_history[k] = alert
                                          THEN resolve(alert, resolved_by, t)
                                          ELSE alert_history[k]]
                  /\ now' = t
    /\ UNCHANGED dbVars

-----------------------------------------------------------------------------
(* The stock and delivery protocol: deliveries from two threads, everything *)
(* else from the main thread                                                *)

EntregaForms ==
    {[empleado_id |-> e, insumo_id |-> i, cantidad |-> q] :
        e \in 1..MaxEmpleados, i \in 1..MaxInsumos, q \in CantidadesEntrega}

Next ==
    \/ \E f \in InsumoForms : /\ sqlite_sequence.insumos < MaxInsumos
                                /\ CrearInsumoVerificar(MainThread, f)
    \/ CrearInsumoInsertar(MainThread)
    \/ \E i \in 1..MaxInsumos, f \in InsumoForms : ActualizarInsumo(MainThread, i, f)
    \/ \E i \in 1..MaxInsumos, n \in StockInputs : ActualizarStock(MainThread, i, n)
    \/ \E i \in 1..MaxInsumos, s \in BOOLEAN : EliminarInsumo(MainThread, i, s)
    \/ \E f \in EmpleadoFormsEntrega : CrearEmpleadoVerificar(MainThread, f)
    \/ CrearEmpleadoInsertar(MainThread)
    \/ \E e \in 1..MaxEmpleados, f \in EmpleadoFormsEntrega : ActualizarEmpleado(MainThread, e, f)
    \/ \E e \in 1..MaxEmpleados : EliminarEmpleado(MainThread, e, TRUE)
    \/ \E t \in Threads, f \in EntregaForms : CrearEntregaVerificar(t, f)
    \/ \E t \in Threads : CrearEntregaInsertar(t)
    \/ \E t \in Threads : CrearEntregaLeer(t)
    \/ \E d \in 1..MaxEntregas : EliminarEntrega(MainThread, d)

Spec == Init /\ [][Next]_vars

-----------------------------------------------------------------------------
(* Properties of the stock and delivery protocol *)

Range(s) == {s[k] : k \in DOMAIN s}

\* the delivery form a crear_entrega step of thread t works on
EntregaEnCurso(t) == IF pc[t] = "entrega_insert" THEN req[t] ELSE last'.args

\* C1: a crear_entrega step (the pre-check, or the insert of a call that
\* passed the pre-check earlier) that finds the supply's cantidad_actual
\* below the requested quantity ends the call with an error, and leaves the
\* supplies and the deliveries as they were.
C1_StockInsuficienteRechazado ==
    [][\A t \in Threads :
        (/\ last'.op = "crear_entrega" /\ last'.thread = t
         /\ pc[t] \in {"idle", "entrega_insert"}
         /\ EntregaEnCurso(t).insumo_id \in DOMAIN insumos
         /\ insumos[EntregaEnCurso(t).insumo_id].cantidad_actual < EntregaEnCurso(t).cantidad)
        => (/\ pc'[t] = "idle"
            /\ last'.kind \notin {"ok", "pending"}
            /\ insumos' = insumos
            /\ entregas' = entregas)]_vars

\* C1 witness: the insert of a delivery was refused at write time although a
\* pre-check had passed: the supply is there, holds less than was asked for,
\* and another delivery against it is recorded.
C1_Witness ==
    /\ last.op = "crear_entrega" /\ last.kind = "DatabaseException"
    /\ last.args.insumo_id \in DOMAIN insumos
    /\ insumos[last.args.insumo_id].cantidad_actual < last.args.cantidad
    /\ insumos[last.args.insumo_id].cantidad_actual = 4
    /\ \E d \in DOMAIN entregas : entregas[d].insumo_id = last.args.insumo_id

\* C23: when the insert of a delivery whose pre-check had passed is aborted
\* by tr_entregas_validate_stock, nothing of the insert persists (no delivery
\* row, the stock and the id counter as before) and the call ends with a
\* storage error, not with a business error such as
\* InsufficientStockException.
C23_AbortoDelTrigger ==
    [][\A t \in Threads :
        (/\ pc[t] = "entrega_insert" /\ pc'[t] # "entrega_insert"
         /\ tr_entregas_validate_stock(insumos, req[t]))
        => (/\ entregas' = entregas
            /\ insumos' = insumos
            /\ sqlite_sequence' = sqlite_sequence
            /\ pc'[t] = "idle"
            /\ last'.op = "crear_entrega" /\ last'.thread = t
            /\ last'.kind \in DatabaseKinds
            /\ last'.kind \notin BusinessLogicKinds)]_vars

\* C23 witness: two deliveries of 6 against a supply of 10 both passed the
\* pre-check; one was recorded and the other, from the other thread, was
\* aborted at write time with a storage error, the stock staying at 4.
C23_Witness ==
    /\ last.op = "crear_entrega" /\ last.kind \in DatabaseKinds
    /\ last.args.cantidad = 6
    /\ Cardinality(DOMAIN entregas) = 1
    /\ \E d \in DOMAIN entregas :
          /\ entregas[d].insumo_id = last.args.insumo_id
          /\ entregas[d].cantidad = 6
          /\ insumos[entregas[d].insumo_id].cantidad_actual = 4
    /\ \A t \in Threads : pc[t] = "idle"

\* C2: in every step, each delivery row that appears comes with a decrease
\* of its supply's cantidad_actual by exactly the row's quantity, and a
\* crear_entrega step that changes any supply adds a delivery row: the row
\* and the decrement are never seen one without the other.
C2_DecrementoAtomico ==
    [][/\ \A d \in DOMAIN entregas' \ DOMAIN entregas :
            /\ entregas'[d].insumo_id \in DOMAIN insumos \cap DOMAIN insumos'
            /\ insumos'[entregas'[d].insumo_id].cantidad_actual
                 = insumos[entregas'[d].insumo_id].cantidad_actual - entregas'[d].cantidad
       /\ (last'.op = "crear_entrega" /\ insumos' # insumos)
            => DOMAIN entregas' # DOMAIN entregas]_vars

\* C2 witness: a delivery of 6 has just been inserted and the supply, created
\* with 10, shows 4.
C2_Witness ==
    \E t \in Threads :
        /\ pc[t] = "entrega_readback" /\ last.thread = t /\ last.op = "crear_entrega"
        /\ req[t].entrega_id \in DOMAIN entregas
        /\ entregas[req[t].entrega_id].cantidad = 6
        /\ req[t].form_data.insumo_id \in DOMAIN insumos
        /\ insumos[req[t].form_data.insumo_id].cantidad_actual = 4

\* C3: every active supply has cantidad_actual >= 0 and
\* cantidad_minima <= cantidad_maxima, in every reachable state.
C3_InsumoActivoValido ==
    \A id \in DOMAIN insumos :
        insumos[id].activo =>
            /\ insumos[id].cantidad_actual >= 0
            /\ insumos[id].cantidad_minima <= insumos[id].cantidad_maxima

\* C3 witness: an active supply driven to exactly 0 by a completed delivery.
C3_Witness ==
    /\ last.op = "crear_entrega" /\ last.kind = "ok"
    /\ last.args.insumo_id \in DOMAIN insumos
    /\ insumos[last.args.insumo_id].activo
    /\ insumos[last.args.insumo_id].cantidad_actual = 0

\* C4: a successful eliminar_entrega removes exactly the named delivery row
\* and changes no supply (the stock taken by the delivery is not given back)
\* and no employee.
C4_EliminarEntregaNoRestaura ==
    [][(last'.op = "eliminar_entrega" /\ last'.kind = "ok")
        => (/\ last'.args.entrega_id \in DOMAIN entregas
            /\ entregas' = Drop(entregas, {last'.args.entrega_id})
            /\ insumos' = insumos
            /\ empleados' = empleados)]_vars

\* C4 witness: the only delivery (of 6, against a supply created with 10) has
\* been deleted and the supply still shows 4.
C4_Witness ==
    /\ last.op = "eliminar_entrega" /\ last.kind = "ok"
    /\ entregas = NoRows
    /\ \E id \in DOMAIN insumos : insumos[id].cantidad_actual = 4

\* C5: a well-formed crear_entrega for an existing employee who is inactive or
\* whose name is blank ends with BusinessLogicException whose message lists
\* exactly the reasons that apply, and changes nothing in storage.
C5_EmpleadoNoElegible ==
    [][\A t \in Threads :
        (/\ last'.op = "crear_entrega" /\ last'.thread = t /\ pc[t] = "idle"
         /\ validate_entrega_data(last'.args).ok
         /\ last'.args.empleado_id \in DOMAIN empleados
         /\ \/ ~empleados[last'.args.empleado_id].activo
            \/ strip(empleados[last'.args.empleado_id].nombre_completo) = <<>>)
        => (/\ last'.kind = "BusinessLogicException"
            /\ pc'[t] = "idle"
            /\ ("Empleado inactivo" \in Range(last'.detail.issues))
                 <=> ~empleados[last'.args.empleado_id].activo
            /\ ("Nombre incompleto" \in Range(last'.detail.issues))
                 <=> (strip(empleados[last'.args.empleado_id].nombre_completo) = <<>>)
            /\ UNCHANGED dbVars)]_vars

\* C5 witness: a delivery was refused for an employee who is both inactive and
\* without a name.
C5_Witness ==
    /\ last.op = "crear_entrega" /\ last.kind = "BusinessLogicException"
    /\ last.detail.issues = <<"Empleado inactivo", "Nombre incompleto">>
    /\ last.args.empleado_id \in DOMAIN empleados
    /\ ~empleados[last.args.empleado_id].activo
    /\ empleados[last.args.empleado_id].nombre_completo = <<>>

-----------------------------------------------------------------------------
(* Employees: creation from two threads, update, soft and hard delete, and *)
(* deliveries from the main thread                                         *)

EntregaFormsEmpleados ==
    {[empleado_id |-> e, insumo_id |-> i, cantidad |-> 6] :
        e \in 1..MaxEmpleados, i \in 1..MaxInsumos}

NextEmpleados ==
    \/ /\ sqlite_sequence.insumos < MaxInsumos
       /\ CrearInsumoVerificar(MainThread, InsumoForm(Papel, 10, 5, 50))
    \/ CrearInsumoInsertar(MainThread)
    \/ \E t \in Threads, f \in EmpleadoForms : CrearEmpleadoVerificar(t, f)
    \/ \E t \in Threads : CrearEmpleadoInsertar(t)
    \/ \E e \in 1..MaxEmpleados, f \in EmpleadoForms : ActualizarEmpleado(MainThread, e, f)
    \/ \E e \in 1..MaxEmpleados, s \in BOOLEAN : EliminarEmpleado(MainThread, e, s)
    \/ \E f \in EntregaFormsEmpleados : CrearEntregaVerificar(MainThread, f)
    \/ CrearEntregaInsertar(MainThread)
    \/ CrearEntregaLeer(MainThread)

SpecEmpleados == Init /\ [][NextEmpleados]_vars

\* the cedula a crear_empleado step of thread t works on
CedulaSolicitada(t) ==
    IF pc[t] = "empleado_insert" THEN req[t].cedula
    ELSE validate_cedula(last'.args.cedula).value

\* C9: a crear_empleado step (the pre-check of a valid form, or the insert of
\* a call that passed the pre-check earlier) that finds a row with the same
\* cedula ends with DuplicateRecordException naming the field cedula and the
\* value, and adds no row.
C9_CedulaDuplicada ==
    [][\A t \in Threads :
        (/\ last'.op = "crear_empleado" /\ last'.thread = t
         /\ pc[t] \in {"idle", "empleado_insert"}
         /\ pc[t] = "idle" => create_empleado_from_form_data(last'.args).ok
         /\ \E id \in DOMAIN empleados : empleados[id].cedula = CedulaSolicitada(t))
        => (/\ last'.kind = "DuplicateRecordException"
            /\ last'.detail.field \in {"cedula", "cédula"}
            /\ last'.detail.value = CedulaSolicitada(t)
            /\ empleados' = empleados)]_vars

EmpleadoConEntregas(e) == \E d \in DOMAIN entregas : entregas[d].empleado_id = e

\* a step that is a hard delete of an existing employee with deliveries
HardDeleteConEntregas ==
    /\ last'.op = "eliminar_empleado"
    /\ ~last'.args.soft_delete
    /\ last'.args.empleado_id \in DOMAIN empleados
    /\ EmpleadoConEntregas(last'.args.empleado_id)

-----------------------------------------------------------------------------
(* The alert engine over the stock and the deliveries, one thread *)

EntregaFormsAlertas ==
    {[empleado_id |-> 1, insumo_id |-> i, cantidad |-> q] :
        i \in 1..MaxInsumos, q \in {2, 6}}

\* what a caller can pass to resolver_alerta: the id of a listed alert, or a
\* key of the map
AlertIds ==
    {a.id : a \in obtener_alertas_activas(active_alerts)} \cup DOMAIN active_alerts

NextAlertas ==
    \/ \E f \in {InsumoForm(Papel, 10, 5, 50), InsumoForm(Papel, 2, 10, 50)} :
          /\ sqlite_sequence.insumos < MaxInsumos
          /\ CrearInsumoVerificar(MainThread, f)
    \/ CrearInsumoInsertar(MainThread)
    \/ CrearEmpleadoVerificar(MainThread, [nombre_completo |-> Ana, cedula |-> Cedula1])
    \/ CrearEmpleadoInsertar(MainThread)
    \/ \E f \in EntregaFormsAlertas : CrearEntregaVerificar(MainThread, f)
    \/ CrearEntregaInsertar(MainThread)
    \/ CrearEntregaLeer(MainThread)
    \/ \E i \in 1..MaxInsumos : ActualizarStock(MainThread, i, 10)
    \/ \E falla_stock \in BOOLEAN, falla_entregas \in BOOLEAN :
          VerificarTodasLasAlertas(MainThread, falla_stock, falla_entregas, "ninguna")
    \/ \E a \in AlertIds : ResolverAlerta(MainThread, a, "admin")

SpecAlertas == Init /\ [][NextAlertas]_vars

\* C6: a verification pass that directly follows another one, under the
\* same storage conditions, leaves the active map as it was: no key added
\* and no alert under an existing key replaced or re-stamped.
C6_SegundaPasadaIdempotente ==
    [][(/\ last.op = "verificar_todas_las_alertas"
        /\ last'.op = "verificar_todas_las_alertas"
        /\ last'.args = last.args)
        => active_alerts' = active_alerts]_vars

\* C7: the stock-alert check lists an active supply as CRITICO exactly when
\* its cantidad_actual is 0 and as BAJO exactly when 0 < cantidad_actual <=
\* cantidad_minima, every other active supply being NORMAL; and right after
\* a verification pass that could read the stock, every supply listed as
\* CRITICO or BAJO has its stock alert in the map.
C7_EstadoStock ==
    /\ obtener_alertas_stock(insumos).criticas
         = {i \in DOMAIN insumos : insumos[i].activo /\ insumos[i].cantidad_actual = 0}
    /\ obtener_alertas_stock(insumos).bajas
         = {i \in DOMAIN insumos : /\ insumos[i].activo
                                    /\ 0 < insumos[i].cantidad_actual
                                    /\ insumos[i].cantidad_actual <= insumos[i].cantidad_minima}
    /\ \A i \in DOMAIN vw_stock_alerts(insumos) :
         vw_stock_alerts(insumos)[i] = "NORMAL"
            <=> insumos[i].cantidad_actual > insumos[i].cantidad_minima
    /\ (last.op = "verificar_todas_las_alertas" /\ ~last.args.falla_stock)
         => /\ \A i \in obtener_alertas_stock(insumos).criticas :
                  make_alert_key("STOCK_CRITICO", i, <<>>) \in DOMAIN active_alerts
            /\ \A i \in obtener_alertas_stock(insumos).bajas :
                  make_alert_key("STOCK_BAJO", i, <<>>) \in DOMAIN active_alerts

\* C7 witness: a supply with minimum 5 that a delivery of 6 brought to 4 is
\* listed as BAJO, and the pass that just ran has put its alert in the map.
C7_Witness ==
    /\ last.op = "verificar_todas_las_alertas" /\ ~last.args.falla_stock
    /\ \E i \in obtener_alertas_stock(insumos).bajas :
         /\ insumos[i].cantidad_actual = 4 /\ insumos[i].cantidad_minima = 5
         /\ \E d \in DOMAIN entregas : entregas[d].insumo_id = i /\ entregas[d].cantidad = 6
         /\ make_alert_key("STOCK_BAJO", i, <<>>) \in DOMAIN active_alerts
         /\ ~active_alerts[make_alert_key("STOCK_BAJO", i, <<>>)].resolved

\* C8: resolver_alerta called with the id of an alert that
\* obtener_alertas_activas lists succeeds, and afterwards no listed alert has
\* that id.
C8_ResolverPorId ==
    [][(/\ last'.op = "resolver_alerta"
        /\ \E a \in obtener_alertas_activas(active_alerts) : a.id = last'.args.alert_id)
        => (/\ last'.kind = "ok"
            /\ \A a \in obtener_alertas_activas(active_alerts') :
                 a.id # last'.args.alert_id)]_vars

-----------------------------------------------------------------------------
(* The supply catalogue: creations from two threads, updates and deletions *)
(* from the main thread                                                    *)

PapelMinusculas == lower(Papel)

InsumoFormsCatalogo == {InsumoForm(Papel, 10, 5, 50), InsumoForm(PapelMinusculas, 2, 10, 50)}

InsumosEnCurso == Cardinality({t \in Threads : pc[t] = "insumo_insert"})

NextCatalogo ==
    \/ \E t \in Threads, f \in InsumoFormsCatalogo :
          /\ sqlite_sequence.insumos + InsumosEnCurso < MaxCatalogo
          /\ CrearInsumoVerificar(t, f)
    \/ \E t \in Threads : CrearInsumoInsertar(t)
    \/ \E i \in 1..MaxCatalogo, f \in InsumoFormsCatalogo : ActualizarInsumo(MainThread, i, f)
    \/ \E i \in 1..MaxCatalogo, n \in StockInputs : ActualizarStock(MainThread, i, n)
    \/ \E i \in 1..MaxCatalogo, s \in BOOLEAN : EliminarInsumo(MainThread, i, s)

SpecCatalogo == Init /\ [][NextCatalogo]_vars

\* C11: in every reachable state no two active supplies have the same name
C11_NombreUnicoEntreActivos ==
    \A i \in DOMAIN insumos, j \in DOMAIN insumos :
        (i # j /\ insumos[i].activo /\ insumos[j].activo)
            => insumos[i].nombre # insumos[j].nombre

-----------------------------------------------------------------------------
(* MigrationManager: runs of migrate_up against one database file, a run    *)
(* being a start of the program.  A migration's up() and the INSERT that    *)
(* records it are two transactions; the process can die between any two.    *)

\* a new, empty database file
InitMigraciones ==
    /\ insumos = NoRows
    /\ empleados = NoRows
    /\ entregas = NoRows
    /\ sqlite_sequence = [insumos |-> 0, empleados |-> 0, entregas |-> 0]
    /\ pc = [t \in Threads |-> "idle"]
    /\ req = [t \in Threads |-> NoReq]
    /\ last = Outcome("init", MainThread, NoReq, "ok", NoDetail)
    /\ active_alerts = <<>>
    /\ alert_history = <<>>
    /\ now = 0
    /\ sqlite_master = <<>>
    /\ schema_migrations = <<>>
    /\ migrador = MigradorEnReposo(0, "init", "none")
    /\ cursor = [t \in Threads |-> CursorCerrado("init", "none", "none", 0)]
    /\ write_lock = "none"
    /\ local_connection = [t \in Threads |-> "none"]
    /\ fs = Put(<<>>, DB, Contenido(1, "ok", FALSE))
    /\ restauracion = SinRestauracion("init", 0)
    /\ backup_lock = "none"
    /\ timers = Put(<<>>, 1, interval_seconds)
    /\ auto_run = AutoRunEnReposo("init")
    /\ backup_service = [auto_backup_enabled |-> TRUE, backup_timer |-> 1, timer_seq |-> 1,
                         backup_seq |-> 0, datos |-> 1, conmutaciones |-> 0]

\* where apply_migration goes after version number pos is dealt with
siguiente(m, evento) ==
    IF m.pos = Len(Versions)
    THEN [m EXCEPT !.pos = 0, !.fase = "idle", !.evento = "fin"]
    ELSE [m EXCEPT !.pos = @ + 1, !.fase = "apply", !.evento = evento]

\* MigrationManager.__init__ and the start of migrate_up
MigrateUpStart ==
    /\ migrador.fase = "idle"
    /\ migrador.corrida < MaxCorridas
    /\ sqlite_master' = create_migrations_table(sqlite_master)
    /\ migrador' = [corrida |-> migrador.corrida + 1, pos |-> 1, fase |-> "apply",
                    up_log |-> <<>>, evento |-> "start", error |-> "none"]
    /\ UNCHANGED <<schema_migrations, appVars, cursorVars, backupVars>>

\* apply_migration up to the end of migration.up(): a recorded version is
\* skipped, any other has its up() run in one transaction
ApplyMigrationUp ==
    /\ migrador.fase = "apply"
    /\ LET version == Versions[migrador.pos]
       IN IF is_migration_applied(version, schema_migrations)
          THEN /\ migrador' = siguiente(migrador, "skip")
               /\ UNCHANGED sqlite_master
          ELSE /\ sqlite_master' = up(version, sqlite_master)
               /\ migrador' = [migrador EXCEPT !.fase = "record", !.evento = "up",
                                               !.up_log = Append(@, version)]
    /\ UNCHANGED <<schema_migrations, appVars, cursorVars, backupVars>>

\* apply_migration: INSERT INTO schema_migrations; version is the PRIMARY KEY
ApplyMigrationRecord ==
    /\ migrador.fase = "record"
    /\ LET version == Versions[migrador.pos]
       IN IF version \in {schema_migrations[k] : k \in DOMAIN schema_migrations}
          THEN /\ migrador' = MigradorEnReposo(migrador.corrida, "raise",
                                               "DatabaseMigrationException")
               /\ UNCHANGED schema_migrations
          ELSE /\ schema_migrations' = Append(schema_migrations, version)
               /\ migrador' = siguiente(migrador, "record")
    /\ UNCHANGED <<sqlite_master, appVars, cursorVars, backupVars>>

\* the process ends in the middle of a run
Interrumpir ==
    /\ migrador.fase # "idle"
    /\ migrador' = [MigradorEnReposo(migrador.corrida, "killed", "none")
                        EXCEPT !.up_log = migrador.up_log]
    /\ UNCHANGED <<sqlite_master, schema_migrations, appVars, cursorVars, backupVars>>

NextMigraciones ==
    \/ MigrateUpStart
    \/ ApplyMigrationUp
    \/ ApplyMigrationRecord
    \/ Interrumpir

SpecMigraciones == InitMigraciones /\ [][NextMigraciones]_vars

\* get_migration_status()['pending_migrations']
pending_migrations ==
    {Versions[k] : k \in {x \in DOMAIN Versions :
                             Versions[x] \notin {schema_migrations[r] :
                                                    r \in DOMAIN schema_migrations}}}

SinDuplicados(s) == \A a \in DOMAIN s, b \in DOMAIN s : s[a] = s[b] => a = b

\* C12: a run of migrate_up against a database on which the migrations are
\* all recorded raises nothing, runs no up() again, and leaves the schema
\* objects and the schema_migrations records as they were, none twice
C12_SegundaCorridaSinEfecto ==
    [][(pending_migrations = {} /\ migrador'.evento \in {"start", "skip", "up", "record",
                                                       "raise", "fin"})
          => /\ migrador'.evento \in {"start", "skip", "fin"}
             /\ migrador'.error = "none"
             /\ migrador'.up_log = <<>>
             /\ sqlite_master' = sqlite_master
             /\ schema_migrations' = schema_migrations
             /\ SinDuplicados(sqlite_master') /\ SinDuplicados(schema_migrations')]_vars

\* a run after the first one went through every version and ended normally
\* on the complete database
C12_Witness ==
    /\ migrador.corrida >= 2
    /\ migrador.evento = "fin"
    /\ migrador.up_log = <<>>
    /\ pending_migrations = {}

\* the schema that the up() of the given versions, run in this order on a
\* new file, builds
RECURSIVE EsquemaDe(_, _)
EsquemaDe(master, versions) ==
    IF versions = <<>> THEN master
    ELSE EsquemaDe(up(Head(versions), master), Tail(versions))

\* C25: migrate_up takes the versions in increasing order, skips a recorded
\* version without touching the schema, runs up() only for a version that
\* is not recorded and whose predecessors all are, and when a run fails or
\* is interrupted the schema holds the objects of the recorded versions and
\* nothing of any other version.
C25_MigracionAtomica ==
    [][/\ migrador'.evento \in {"up", "skip"} =>
            /\ migrador.pos \in DOMAIN Versions
            /\ \A k \in 1..(migrador.pos - 1) :
                  is_migration_applied(Versions[k], schema_migrations)
            /\ (migrador'.evento = "skip")
                  <=> is_migration_applied(Versions[migrador.pos], schema_migrations)
            /\ migrador'.evento = "skip" => sqlite_master' = sqlite_master
       /\ migrador'.evento \in {"killed", "raise"} =>
            /\ schema_migrations' = schema_migrations
            /\ sqlite_master' = EsquemaDe(create_migrations_table(<<>>), schema_migrations')
      ]_vars

-----------------------------------------------------------------------------
(* DatabaseConnection.get_cursor(transaction=True): a block of statements  *)
(* run step by step on the thread's connection.  `working` is what the     *)
(* connection sees, `insumos` what is committed.                           *)

\* the statements a block runs: UPDATE insumos SET cantidad_actual = ?
\* WHERE id = ?, a statement a trigger aborts, a statement SQLite refuses,
\* and Python code of the block that raises
Sentencias ==
    {[tipo |-> "update", id |-> 1, cantidad_actual |-> n] : n \in {-1, 7}}
    \cup {[tipo |-> "raise", error |-> e] :
             e \in {"sqlite3.IntegrityError", "sqlite3.OperationalError", "KeyError"}}

\* the exception a statement raises on the connection, "none" if it runs
sqlite3_execute_error(working, stmt) ==
    IF stmt.tipo = "raise" THEN stmt.error
    ELSE IF stmt.id \in DOMAIN working
            /\ ~insumos_check([working[stmt.id] EXCEPT
                                  !.cantidad_actual = stmt.cantidad_actual])
    THEN "sqlite3.IntegrityError"
    ELSE "none"

\* the rows the connection sees after a statement that ran
sqlite3_execute(working, stmt) ==
    IF stmt.tipo = "update" /\ stmt.id \in DOMAIN working
    THEN [working EXCEPT ![stmt.id].cantidad_actual = stmt.cantidad_actual]
    ELSE working

\* the end of the block always committing what the connection sees
get_cursor_exit_sin_rollback(committed, working, error) == working

\* the end of the block: conn.commit() after the yield, conn.rollback() in
\* every except clause
get_cursor_exit(committed, working, error) ==
    IF error = "none" THEN working ELSE committed

\* _get_connection: the calling thread's connection, opened on first use
get_connection(connections, t) == [connections EXCEPT ![t] = "open"]

\* BEGIN IMMEDIATE on the thread's connection: takes the write lock at
\* once; when another connection holds it past busy_timeout the statement
\* fails with `database is locked`
GetCursorBegin(t) ==
    /\ cursor[t].fase = "idle"
    /\ pc[t] = "idle"
    /\ cursor[t].bloques < MaxBloques
    /\ IF write_lock = "none"
       THEN /\ write_lock' = t
            /\ cursor' = [cursor EXCEPT ![t] =
                   [fase |-> "block", working |-> insumos, antes |-> insumos,
                    sentencias |-> 0, evento |-> "begin", error |-> "none",
                    raised |-> "none", bloques |-> cursor[t].bloques + 1]]
       ELSE /\ UNCHANGED write_lock
            /\ cursor' = [cursor EXCEPT ![t] =
                   CursorCerrado("raise", "sqlite3.OperationalError",
                                 get_cursor_raises("sqlite3.OperationalError"),
                                 cursor[t].bloques + 1)]
    /\ local_connection' = get_connection(local_connection, t)
    /\ UNCHANGED <<appVars, schemaVars, backupVars>>

\* a statement of the block; one that raises leaves the block through the
\* except clauses: rollback, then the translated exception
GetCursorExecute(t, stmt) ==
    /\ cursor[t].fase = "block"
    /\ cursor[t].sentencias < MaxSentencias
    /\ LET error == sqlite3_execute_error(cursor[t].working, stmt)
       IN IF error = "none"
          THEN /\ cursor' = [cursor EXCEPT
                                ![t].working = sqlite3_execute(@, stmt),
                                ![t].sentencias = @ + 1,
                                ![t].evento = "execute"]
               /\ UNCHANGED <<insumos, write_lock>>
          ELSE /\ insumos' = get_cursor_exit(insumos, cursor[t].working, error)
               /\ write_lock' = "none"
               /\ cursor' = [cursor EXCEPT ![t] =
                      [CursorCerrado("raise", error, get_cursor_raises(error),
                                     cursor[t].bloques)
                          EXCEPT !.working = cursor[t].working,
                                 !.antes = cursor[t].antes]]
    /\ UNCHANGED <<empleados, entregas, sqlite_sequence, alertVars, serviceVars, schemaVars,
                   backupVars, local_connection>>

\* the block completes: conn.commit()
GetCursorCommit(t) ==
    /\ cursor[t].fase = "block"
    /\ insumos' = get_cursor_exit(insumos, cursor[t].working, "none")
    /\ write_lock' = "none"
    /\ cursor' = [cursor EXCEPT ![t] =
           [CursorCerrado("commit", "none", "none", cursor[t].bloques)
               EXCEPT !.working = cursor[t].working, !.antes = cursor[t].antes]]
    /\ UNCHANGED <<empleados, entregas, sqlite_sequence, alertVars, serviceVars, schemaVars,
                   backupVars, local_connection>>

NextCursor ==
    \/ /\ sqlite_sequence.insumos < MaxInsumos
       /\ cursor[MainThread].fase = "idle"
       /\ CrearInsumoVerificar(MainThread, InsumoForm(Papel, 10, 5, 50))
    \/ /\ write_lock = "none"
       /\ CrearInsumoInsertar(MainThread)
    \/ \E t \in Threads : GetCursorBegin(t)
    \/ \E t \in Threads, stmt \in Sentencias : GetCursorExecute(t, stmt)
    \/ \E t \in Threads : GetCursorCommit(t)

SpecCursor == Init /\ [][NextCursor]_vars

\* C13: a transactional cursor takes the write lock when it begins, commits
\* what it wrote when its block completes, and when the block raises rolls
\* back, so that the committed rows are those from before the block, and
\* raises the integrity error kind for an integrity violation and another,
\* generic storage error kind for any other storage error
C13_CursorTransaccional ==
    [][\A t \in Threads :
          /\ (cursor[t].fase = "idle" /\ cursor'[t].fase = "block")
                => (write_lock = "none" /\ write_lock' = t)
          /\ (cursor[t].fase = "block" /\ cursor'[t].evento = "commit")
                => insumos' = cursor[t].working
          /\ (cursor[t].fase = "block" /\ cursor'[t].evento = "raise")
                => /\ insumos' = cursor[t].antes
                   /\ cursor'[t].error = "sqlite3.IntegrityError"
                         => cursor'[t].raised = "DatabaseIntegrityException"
                   /\ cursor'[t].error \in Sqlite3Errors \ {"sqlite3.IntegrityError"}
                         => cursor'[t].raised \in DatabaseKinds \ {"DatabaseIntegrityException"}
      ]_vars

\* a block that wrote a row and then hit an integrity violation has ended
C13_Witness ==
    \E t \in Threads :
        /\ cursor[t].evento = "raise"
        /\ cursor[t].error = "sqlite3.IntegrityError"
        /\ cursor[t].working # cursor[t].antes
        /\ insumos = cursor[t].antes

-----------------------------------------------------------------------------
(* BackupService: manual backups and restores on the main thread, automatic *)
(* backups on timer threads, and the environment writing to and damaging    *)
(* the live database file                                                   *)

noBackupVars == <<appVars, schemaVars, cursorVars>>

Vivo(files) == IF DB \in DOMAIN files THEN <<files[DB]>> ELSE <<>>

\* the application commits a write to the live database
EscribirBD ==
    /\ restauracion.fase = "idle"
    /\ DB \in DOMAIN fs /\ fs[DB].estado = "ok"
    /\ backup_service.datos < MaxDatos
    /\ fs' = [fs EXCEPT ![DB].datos = backup_service.datos + 1]
    /\ backup_service' = [backup_service EXCEPT !.datos = @ + 1]
    /\ UNCHANGED <<restauracion, backup_lock, timers, auto_run, noBackupVars>>

\* the live database file is truncated or damaged
CorromperBD(estado) ==
    /\ restauracion.fase = "idle" /\ auto_run.fase = "idle"
    /\ DB \in DOMAIN fs /\ fs[DB].estado = "ok"
    /\ fs' = [fs EXCEPT ![DB].estado = estado]
    /\ UNCHANGED <<restauracion, backup_lock, timers, auto_run, backup_service, noBackupVars>>

\* crear_backup_manual, called from the user interface
CrearBackupManual(falla_compresion) ==
    /\ restauracion.fase = "idle"
    /\ backup_lock = "none"
    /\ backup_service.backup_seq < MaxRespaldos
    /\ LET target == <<"manual", backup_service.backup_seq + 1>>
       IN fs' = crear_backup_manual(fs, target, falla_compresion).fs
    /\ backup_service' = [backup_service EXCEPT !.backup_seq = @ + 1]
    /\ UNCHANGED <<restauracion, backup_lock, timers, auto_run, noBackupVars>>

\* restaurar_backup up to close_all_connections: find the file, back up the
\* live database (crear_backup_manual("pre_restauracion")), validate the
\* chosen backup
RestaurarInicio(backup_path) ==
    /\ restauracion.fase = "idle"
    /\ restauracion.llamadas < MaxRestauraciones
    /\ backup_lock = "none"
    /\ backup_service.backup_seq < MaxRespaldos
    /\ LET pre == crear_backup_manual(fs, <<"manual", backup_service.backup_seq + 1>>, FALSE)
           llamada == [SinRestauracion("raise", restauracion.llamadas + 1) EXCEPT
                          !.backup_path = backup_path,
                          !.antes = Vivo(fs),
                          !.respaldo_valido = validate_backup(fs, backup_path)]
       IN IF backup_path \notin DOMAIN fs
          THEN /\ restauracion' = llamada
               /\ UNCHANGED <<fs, backup_service>>
          ELSE /\ fs' = pre.fs
               /\ backup_service' = [backup_service EXCEPT !.backup_seq = @ + 1]
               /\ IF pre.ok /\ validate_backup(pre.fs, backup_path)
                  THEN restauracion' = [llamada EXCEPT !.fase = "temp", !.evento = "inicio"]
                  ELSE restauracion' = llamada
    /\ UNCHANGED <<backup_lock, timers, auto_run, noBackupVars>>

\* close_all_connections, then the backup is written to the .temp file:
\* gunzipped (a failure raises) or copied with copy_file_safe (a failure is
\* not looked at).  `fiel` is whether the bytes written are those read.
RestaurarTemp(falla, fiel) ==
    /\ restauracion.fase = "temp"
    /\ LET origen == fs[restauracion.backup_path]
           escrito == [origen EXCEPT !.gz = FALSE,
                                     !.estado = IF fiel THEN @ ELSE "malformed"]
           r == [restauracion EXCEPT !.con_fallas = @ \/ falla \/ ~fiel]
       IN IF origen.gz /\ falla
          THEN /\ restauracion' = [r EXCEPT !.fase = "idle", !.evento = "raise"]
               /\ UNCHANGED fs
          ELSE /\ restauracion' = [r EXCEPT !.fase = "reemplazar", !.evento = "temp"]
               /\ fs' = IF falla THEN fs ELSE Put(fs, TEMP, escrito)
    /\ UNCHANGED <<backup_lock, timers, auto_run, backup_service, noBackupVars>>

\* the live file is copied to .backup (the result of copy_file_safe is not
\* looked at), unlinked, and the .temp file renamed onto it
RestaurarReemplazar(falla_copia) ==
    /\ restauracion.fase = "reemplazar"
    /\ LET copiado == copy_file_safe(fs, DB, CURRENT_BACKUP, falla_copia)
           sin_db == Drop(copiado, {DB})
           r == [restauracion EXCEPT !.con_fallas = @ \/ falla_copia]
       IN IF TEMP \notin DOMAIN sin_db
          THEN /\ fs' = sin_db
               /\ restauracion' = [r EXCEPT !.fase = "idle", !.evento = "raise"]
          ELSE /\ fs' = Drop(Put(sin_db, DB, sin_db[TEMP]), {TEMP})
               /\ restauracion' = [r EXCEPT !.fase = "validar", !.evento = "reemplazar"]
    /\ UNCHANGED <<backup_lock, timers, auto_run, backup_service, noBackupVars>>

\* the swapped-in file is validated; if invalid and .backup exists, .backup
\* is renamed back onto the live path
RestaurarValidar ==
    /\ restauracion.fase = "validar"
    /\ IF validate_backup(fs, DB)
       THEN /\ fs' = Drop(fs, {CURRENT_BACKUP})
            /\ restauracion' = [restauracion EXCEPT !.fase = "idle", !.evento = "ok"]
       ELSE /\ fs' = IF CURRENT_BACKUP \in DOMAIN fs
                     THEN Drop(Put(fs, DB, fs[CURRENT_BACKUP]), {CURRENT_BACKUP})
                     ELSE fs
            /\ restauracion' = [restauracion EXCEPT !.fase = "idle", !.evento = "raise"]
    /\ UNCHANGED <<backup_lock, timers, auto_run, backup_service, noBackupVars>>

\* a timer fires: _execute_auto_backup, crear_backup_automatico up to the
\* end of _create_sqlite_backup, which reads the live database file
AutoBackupInicio(id) ==
    /\ id \in DOMAIN timers
    /\ backup_lock = "none"
    /\ auto_run.fase = "idle"
    /\ backup_service.backup_seq < MaxRespaldos
    /\ backup_service.timer_seq + 2 <= MaxTimers
    /\ LET path == <<"auto", backup_service.backup_seq + 1>>
           copia == create_sqlite_backup(fs, DB, path)
       IN /\ fs' = copia.fs
          /\ auto_run' = [fase |-> "running", path |-> path, ok |-> copia.ok,
                          evento |-> "read"]
    /\ timers' = Drop(timers, {id})
    /\ backup_lock' = "timer"
    /\ backup_service' = [backup_service EXCEPT !.backup_seq = @ + 1]
    /\ UNCHANGED <<restauracion, noBackupVars>>

\* the rest of crear_backup_automatico and of _execute_auto_backup: compress,
\* validate, then _schedule_next_backup; on any failure _schedule_backup_retry
\* in crear_backup_automatico and again in _execute_auto_backup
AutoBackupFin(falla_compresion) ==
    /\ auto_run.fase = "running"
    /\ LET path == auto_run.path
           comprimido == Put(fs, path, compress_backup(fs[path], falla_compresion))
           exito == auto_run.ok /\ validate_backup(comprimido, path)
           siguiente_backup == schedule_next_backup(backup_service, timers)
           reintento == schedule_backup_retry(backup_service, timers)
           reintentos == schedule_backup_retry(reintento.svc, reintento.timers)
       IN /\ fs' = IF exito THEN comprimido ELSE Drop(fs, {path})
          /\ backup_service' = IF exito THEN siguiente_backup.svc ELSE reintentos.svc
          /\ timers' = IF exito THEN siguiente_backup.timers ELSE reintentos.timers
          /\ auto_run' = AutoRunEnReposo(IF exito THEN "ok" ELSE "raise")
    /\ backup_lock' = "none"
    /\ UNCHANGED <<restauracion, noBackupVars>>

\* activar_backup_automatico
ActivarBackupAutomatico ==
    /\ backup_service.conmutaciones < MaxConmutaciones
    /\ ~backup_service.auto_backup_enabled
    /\ backup_service.timer_seq < MaxTimers
    /\ LET svc == [backup_service EXCEPT !.auto_backup_enabled = TRUE,
                                         !.conmutaciones = @ + 1]
           programado == schedule_next_backup(svc, timers)
       IN /\ backup_service' = programado.svc
          /\ timers' = programado.timers
    /\ UNCHANGED <<fs, restauracion, backup_lock, auto_run, noBackupVars>>

\* desactivar_backup_automatico
DesactivarBackupAutomatico ==
    /\ backup_service.auto_backup_enabled
    /\ backup_service' = [backup_service EXCEPT !.auto_backup_enabled = FALSE,
                                                !.backup_timer = 0]
    /\ timers' = Drop(timers, {backup_service.backup_timer})
    /\ UNCHANGED <<fs, restauracion, backup_lock, auto_run, noBackupVars>>

\* the names a user can ask to restore: the backups made so far, and one
\* that does not exist
BackupPaths ==
    {<<tipo, k>> : tipo \in {"manual", "auto"}, k \in 1..MaxRespaldos}

NextRespaldo ==
    \/ EscribirBD
    \/ \E estado \in {"malformed", "empty"} : CorromperBD(estado)
    \/ \E falla \in BOOLEAN : CrearBackupManual(falla)
    \/ \E path \in BackupPaths : RestaurarInicio(path)
    \/ \E falla \in BOOLEAN, fiel \in BOOLEAN : RestaurarTemp(falla, fiel)
    \/ \E falla \in BOOLEAN : RestaurarReemplazar(falla)
    \/ RestaurarValidar
    \/ \E id \in 1..MaxTimers : AutoBackupInicio(id)
    \/ \E falla \in BOOLEAN : AutoBackupFin(falla)
    \/ ActivarBackupAutomatico
    \/ DesactivarBackupAutomatico

SpecRespaldo == Init /\ [][NextRespaldo]_vars

\* C14: whenever restaurar_backup raises, the live database file is the
\* file it was before the call: not replaced, not missing
C14_RestaurarFallidoDejaIntacto ==
    [][(restauracion' # restauracion /\ restauracion'.evento = "raise")
          => Vivo(fs') = restauracion'.antes]_vars

\* C15: a restore from a valid manual backup, asked for after the live
\* database file was truncated or damaged, and in which no copy fails,
\* succeeds and leaves a live file that passes validation
C15_RestaurarTrasCorrupcion ==
    [][(/\ restauracion' # restauracion
        /\ restauracion'.evento \in {"raise", "ok"}
        /\ restauracion'.antes # <<>>
        /\ restauracion'.antes[1].estado # "ok"
        /\ restauracion'.backup_path[1] = "manual"
        /\ restauracion'.respaldo_valido
        /\ ~restauracion'.con_fallas)
          => (restauracion'.evento = "ok" /\ validate_backup(fs', DB))]_vars

\* C16: no backup reads the live database file between the moment
\* restaurar_backup has closed the connections and the end of the
\* validation of the swapped-in file
C16_SinBackupDuranteRestauracion ==
    [][(auto_run.fase = "idle" /\ auto_run'.fase = "running")
          => restauracion.fase \notin {"reemplazar", "validar"}]_vars

-----------------------------------------------------------------------------
(* The repositories called directly, with the public code, the price and   *)
(* the timestamps of the rows                                              *)

year == 2025

INS == <<"I", "N", "S">>
EMP == <<"E", "M", "P">>
ENT == <<"E", "N", "T">>

EMP_REG == EMP \o <<"-", "R", "E", "G">>

\* utils.helpers.generar_id, for the number random.randint(1000, 9999) drew
helpers_generar_id(prefijo, include_year, numero) ==
    IF include_year THEN prefijo \o <<"-">> \o str(year) \o <<"-">> \o str(numero)
    ELSE prefijo \o <<"-">> \o str(numero)

\* utils.generar_id, which the repositories call with an upper-case prefix
generar_id(prefijo, numero) ==
    IF prefijo = INS THEN helpers_generar_id(INS, TRUE, numero)
    ELSE IF prefijo = EMP THEN helpers_generar_id(EMP_REG, FALSE, numero)
    ELSE IF prefijo = ENT THEN helpers_generar_id(ENT, FALSE, numero)
    ELSE helpers_generar_id(prefijo, TRUE, numero)

Numeros == {1000, 9999}

\* a Python number: its type and its value in hundredths
Precio(pytype, centavos) == [pytype |-> pytype, centavos |-> centavos]

\* the NUMERIC affinity of column precio_unitario DECIMAL(10,2): a float
\* with no fractional part is stored, and read back, as an integer
numeric_affinity(v) ==
    IF v.pytype = "float" /\ v.centavos % 100 = 0 THEN Precio("int", v.centavos) ELSE v

\* Python ==, on the value of field f
py_eq(f, a, b) == IF f = "precio_unitario" THEN a.centavos = b.centavos ELSE a = b

\* data.get(f, default)
get(data, f, default) == IF f \in DOMAIN data THEN data[f] ELSE default

\* UNIQUE INDEX uq_<table>_codigo, where migration 005 created it
uq_codigo(master, name, table, codigo) ==
    has_objects(master, {name}) => \A id \in DOMAIN table : table[id].codigo # codigo

\* _row_to_dict of SELECT * ... WHERE id = ?
row_to_dict(id, row) == [f \in DOMAIN row \cup {"id"} |-> IF f = "id" THEN id ELSE row[f]]

\* InsumoRepository.get_by_id / EmpleadoRepository.get_by_id: no row, or one
get_by_id(table, id) == IF id \in DOMAIN table THEN <<row_to_dict(id, table[id])>> ELSE <<>>

\* EntregaRepository.get_by_id: SELECT * FROM vw_entregas_completas, the
\* columns the view of migration 006 selects
EntregaRepository_get_by_id(ents, emps, ins, id) ==
    IF id \in vw_entregas_completas(ents, emps, ins)
    THEN <<[id |-> id,
            empleado_id |-> ents[id].empleado_id,
            insumo_id |-> ents[id].insumo_id,
            cantidad |-> ents[id].cantidad,
            fecha_entrega |-> ents[id].fecha_entrega,
            empleado_nombre |-> emps[ents[id].empleado_id].nombre_completo,
            empleado_cedula |-> emps[ents[id].empleado_id].cedula,
            insumo_nombre |-> ins[ents[id].insumo_id].nombre,
            insumo_precio |-> ins[ents[id].insumo_id].precio_unitario]>>
    ELSE <<>>

\* InsumoRepository.create
InsumoRepositoryCreate(t, data, numero) ==
    /\ pc[t] = "idle"
    /\ LET id == sqlite_sequence.insumos + 1
           codigo == generar_id(INS, numero)
           precio == get(data, "precio_unitario", Precio("float", 0))
           row == [nombre |-> data.nombre,
                   cantidad_actual |-> get(data, "cantidad_actual", 0),
                   cantidad_minima |-> get(data, "cantidad_minima", 5),
                   cantidad_maxima |-> get(data, "cantidad_maxima", 100),
                   precio_unitario |-> numeric_affinity(precio),
                   codigo |-> codigo,
                   fecha_creacion |-> now,
                   fecha_actualizacion |-> now,
                   activo |-> TRUE]
           error == IF ~sqlite_bindable(precio.pytype) THEN "sqlite3.ProgrammingError"
                    ELSE IF ~has_objects(sqlite_master, {"insumos.codigo"})
                    THEN "sqlite3.OperationalError"
                    ELSE IF ~insumos_check(row) \/ precio.centavos < 0
                            \/ ~uq_codigo(sqlite_master, "uq_insumos_codigo", insumos, codigo)
                    THEN "sqlite3.IntegrityError"
                    ELSE "none"
       IN IF error = "none"
          THEN /\ insumos' = Put(insumos, id, row)
               /\ sqlite_sequence' = [sqlite_sequence EXCEPT !.insumos = id]
               /\ Returns("InsumoRepository.create", t, data, "ok",
                          [id |-> id, codigo |-> codigo])
          ELSE /\ UNCHANGED <<insumos, sqlite_sequence>>
               /\ Returns("InsumoRepository.create", t, data,
                          repo_create_raises(get_cursor_raises(error), TRUE), NoDetail)
    /\ UNCHANGED <<empleados, entregas, alertVars>>

\* EmpleadoRepository.create
EmpleadoRepositoryCreate(t, data, numero) ==
    /\ pc[t] = "idle"
    /\ LET id == sqlite_sequence.empleados + 1
           codigo == generar_id(EMP, numero)
           row == [nombre_completo |-> data.nombre_completo,
                   cedula |-> data.cedula,
                   nota |-> get(data, "nota", <<>>),
                   codigo |-> codigo,
                   fecha_creacion |-> now,
                   activo |-> TRUE]
           error == IF ~has_objects(sqlite_master, {"empleados.nota", "empleados.codigo"})
                    THEN "sqlite3.OperationalError"
                    ELSE IF ~empleados_cedula_unique(empleados, row.cedula, 0)
                            \/ ~uq_codigo(sqlite_master, "uq_empleados_codigo",
                                          empleados, codigo)
                    THEN "sqlite3.IntegrityError"
                    ELSE "none"
       IN IF error = "none"
          THEN /\ empleados' = Put(empleados, id, row)
               /\ sqlite_sequence' = [sqlite_sequence EXCEPT !.empleados = id]
               /\ Returns("EmpleadoRepository.create", t, data, "ok",
                          [id |-> id, codigo |-> codigo])
          ELSE /\ UNCHANGED <<empleados, sqlite_sequence>>
               /\ Returns("EmpleadoRepository.create", t, data,
                          repo_create_raises(get_cursor_raises(error), TRUE), NoDetail)
    /\ UNCHANGED <<insumos, entregas, alertVars>>

\* EntregaRepository.create: the INSERT with its triggers; every failure is
\* raised as DatabaseException
EntregaRepositoryCreate(t, data, numero) ==
    /\ pc[t] = "idle"
    /\ LET id == sqlite_sequence.entregas + 1
           codigo == generar_id(ENT, numero)
           row == [empleado_id |-> data.empleado_id,
                   insumo_id |-> data.insumo_id,
                   cantidad |-> data.cantidad,
                   codigo |-> codigo,
                   fecha_entrega |-> now]
           result == InsertEntrega(insumos, empleados, row)
           error == IF ~has_objects(sqlite_master, {"entregas.codigo"})
                    THEN "sqlite3.OperationalError"
                    ELSE IF ~uq_codigo(sqlite_master, "uq_entregas_codigo", entregas, codigo)
                    THEN "sqlite3.IntegrityError"
                    ELSE result.error
       IN IF error = "none"
          THEN /\ entregas' = Put(entregas, id, row)
               /\ insumos' = [result.insumos EXCEPT
                                 ![row.insumo_id] = tr_insumos_updated_at(@)]
               /\ sqlite_sequence' = [sqlite_sequence EXCEPT !.entregas = id]
               /\ Returns("EntregaRepository.create", t, data, "ok",
                          [id |-> id, codigo |-> codigo])
          ELSE /\ UNCHANGED <<insumos, entregas, sqlite_sequence>>
               /\ Returns("EntregaRepository.create", t, data, "DatabaseException", NoDetail)
    /\ UNCHANGED <<empleados, alertVars>>

\* the Python types of the values of an update map
pytypes_of(data) ==
    {IF f = "precio_unitario" THEN data[f].pytype
     ELSE IF f = "nombre" THEN "str" ELSE "int" : f \in DOMAIN data}

\* InsumoRepository.update called with a map of columns
InsumoRepositoryUpdate(t, insumo_id, data) ==
    /\ pc[t] = "idle"
    /\ LET result == InsumoRepository_update(insumos, insumo_id, data, pytypes_of(data))
       IN /\ insumos' = result.insumos
          /\ Returns("InsumoRepository.update", t,
                     [insumo_id |-> insumo_id, data |-> data],
                     IF result.raised = "none" THEN "ok" ELSE result.raised,
                     [returned |-> result.returned])
    /\ UNCHANGED <<empleados, entregas, sqlite_sequence, alertVars>>

\* the clock advances between two calls
Reloj ==
    /\ now < MaxNow
    /\ now' = now + 1
    /\ UNCHANGED <<dbVars, active_alerts, alert_history, serviceVars, sysVars>>

NoMap == <<>>

InsumoDatos ==
    {[nombre |-> Papel, cantidad_actual |-> 10, precio_unitario |-> Precio("float", 1250)],
     [nombre |-> Papel, precio_unitario |-> Precio("float", 1000)]}

EmpleadoDatos == {[nombre_completo |-> Ana, cedula |-> Cedula1],
                  [nombre_completo |-> Ana, cedula |-> Cedula2, nota |-> Ana]}

EntregaDatos == {[empleado_id |-> 1, insumo_id |-> 1, cantidad |-> 2]}

UpdateMaps ==
    {NoMap,
     [codigo |-> INS],
     [cantidad_actual |-> 10],
     [cantidad_minima |-> 500],
     [activo |-> FALSE],
     [precio_unitario |-> Precio("Decimal", 1250)]}

NextRepositorios ==
    \/ \E data \in InsumoDatos, numero \in Numeros :
          /\ sqlite_sequence.insumos < MaxInsumos
          /\ InsumoRepositoryCreate(MainThread, data, numero)
    \/ \E data \in EmpleadoDatos, numero \in Numeros :
          /\ sqlite_sequence.empleados < MaxEmpleados
          /\ EmpleadoRepositoryCreate(MainThread, data, numero)
    \/ \E data \in EntregaDatos, numero \in Numeros :
          /\ sqlite_sequence.entregas < MaxEntregas
          /\ EntregaRepositoryCreate(MainThread, data, numero)
    \/ \E id \in 1..(MaxInsumos + 1), data \in UpdateMaps :
          InsumoRepositoryUpdate(MainThread, id, data)
    \/ Reloj

SpecRepositorios == Init /\ [][NextRepositorios]_vars

RepositoryCreates ==
    {"InsumoRepository.create", "EmpleadoRepository.create", "EntregaRepository.create"}

\* what get_by_id of the entity's repository returns for the row just created
Leido ==
    IF last.op = "InsumoRepository.create" THEN get_by_id(insumos, last.detail.id)
    ELSE IF last.op = "EmpleadoRepository.create" THEN get_by_id(empleados, last.detail.id)
    ELSE EntregaRepository_get_by_id(entregas, empleados, insumos, last.detail.id)

Creados ==
    IF last.op = "InsumoRepository.create" THEN insumos
    ELSE IF last.op = "EmpleadoRepository.create" THEN empleados ELSE entregas

\* C19: for each entity, get_by_id after a create returns every field
\* supplied at creation, a server-assigned timestamp and the public code
\* assigned at creation, and no other row of the entity has that code
C19_CrearLuegoLeer ==
    (last.op \in RepositoryCreates /\ last.kind = "ok") =>
        /\ Leido # <<>>
        /\ \A f \in DOMAIN last.args :
              f \in DOMAIN Leido[1] /\ py_eq(f, Leido[1][f], last.args[f])
        /\ {"fecha_creacion", "fecha_entrega"} \cap DOMAIN Leido[1] # {}
        /\ "codigo" \in DOMAIN Leido[1]
        /\ Leido[1].codigo = last.detail.codigo
        /\ \A id \in DOMAIN Creados \ {last.detail.id} :
              Creados[id].codigo # last.detail.codigo

-----------------------------------------------------------------------------
(* Frequent deliveries: one supply, one employee, deliveries over two days *)
(* and the verification pass                                               *)

\* the day changes
Medianoche ==
    /\ DATE(now) < MaxDias
    /\ now' = (DATE(now) + 1) * DIA
    /\ UNCHANGED <<dbVars, active_alerts, alert_history, serviceVars, sysVars>>

NextFrecuentes ==
    \/ /\ sqlite_sequence.insumos < MaxInsumos
       /\ InsumoRepositoryCreate(MainThread, [nombre |-> Papel, cantidad_actual |-> 40],
                                 1000)
    \/ /\ sqlite_sequence.empleados < 1
       /\ EmpleadoRepositoryCreate(MainThread, [nombre_completo |-> Ana, cedula |-> Cedula1],
                                   1000)
    \/ \E data \in EntregaDatos :
          /\ sqlite_sequence.entregas < MaxFrecuentes
          /\ EntregaRepositoryCreate(MainThread, data, 1000 + sqlite_sequence.entregas)
    \/ VerificarTodasLasAlertas(MainThread, FALSE, FALSE, "ninguna")
    \/ Medianoche

SpecFrecuentes == Init /\ [][NextFrecuentes]_vars

\* the deliveries of supply i recorded on the day of second t
EntregasDelDia(i, t) ==
    Cardinality({d \in entregas_hoy(entregas, empleados, insumos, t) :
                    entregas[d].insumo_id = i})

FrecuentesKey(i, t) == make_alert_key("ENTREGAS_FRECUENTES", i, today_iso(t))

\* C20 as stated, on the steps that are a verification pass (the day does
\* not change during the pass): a verification pass raises a high-frequency alert for a
\* supply only when more than N deliveries of it were recorded that day
C20_SoloConMasDeN ==
    [][(last'.op = "verificar_todas_las_alertas" /\ DATE(now') = DATE(now)) =>
         \A i \in DOMAIN insumos :
            FrecuentesKey(i, now') \in DOMAIN active_alerts' \ DOMAIN active_alerts
               => EntregasDelDia(i, now') > umbral_entregas_frecuentes_dia]_vars

\* C20, amended: after a verification pass the alert of a supply for that
\* day is in the map exactly when it already was or N or more deliveries of
\* the supply were recorded that day (a supply with fewer than N gets none);
\* the alerts of other days stay as they are, so that the day's alert is
\* raised whether or not an earlier day's is still there
C20_ConNOMas ==
    [][(last'.op = "verificar_todas_las_alertas" /\ DATE(now') = DATE(now)) =>
         /\ \A i \in DOMAIN insumos :
               FrecuentesKey(i, now') \in DOMAIN active_alerts'
                  <=> \/ FrecuentesKey(i, now') \in DOMAIN active_alerts
                      \/ EntregasDelDia(i, now') >= umbral_entregas_frecuentes_dia
         /\ \A k \in DOMAIN active_alerts :
               k \in DOMAIN active_alerts' /\ active_alerts'[k] = active_alerts[k]]_vars

\* the supply reached the threshold on both days: the alert of the first
\* day is still in the map and the second day's has been raised next to it
C20_Witness ==
    /\ 1 \in DOMAIN insumos
    /\ DATE(now) = 1
    /\ FrecuentesKey(1, 0) \in DOMAIN active_alerts
    /\ FrecuentesKey(1, now) \in DOMAIN active_alerts
    /\ FrecuentesKey(1, 0) # FrecuentesKey(1, now)
    /\ EntregasDelDia(1, now) = umbral_entregas_frecuentes_dia


-----------------------------------------------------------------------------
(* The alert engine over rows written through the repositories: passes     *)
(* whose reads may raise, resolutions and the cleanup of old alerts         *)

\* resolver_alertas_por_tipo: every unresolved alert of the type is resolved
ResolverAlertasPorTipo(th, alert_type, resolved_by) ==
    /\ pc[th] = "idle"
    /\ \E t \in Clock :
        LET keys == {k \in DOMAIN active_alerts :
                        /\ active_alerts[k].alert_type = alert_type
                        /\ ~active_alerts[k].resolved}
            resueltas == {active_alerts[k] : k \in keys}
        IN /\ active_alerts' = [k \in DOMAIN active_alerts |->
                                   IF k \in keys
                                   THEN resolve(active_alerts[k], resolved_by, t)
                                   ELSE active_alerts[k]]
           /\ alert_history' = [k \in DOMAIN alert_history |->
                                   IF alert_history[k] \in resueltas
                                   THEN resolve(alert_history[k], resolved_by, t)
                                   ELSE alert_history[k]]
           /\ now' = t
           /\ Returns("resolver_alertas_por_tipo", th,
                      [alert_type |-> alert_type, resolved_by |-> resolved_by],
                      "ok", [resolved_count |-> Cardinality(keys)])
    /\ UNCHANGED dbVars

\* limpiar_alertas_antiguas: resolved alerts older than the cutoff leave the
\* history and the map
LimpiarAlertasAntiguas(th, days_old) ==
    /\ pc[th] = "idle"
    /\ \E t \in Clock :
        LET cutoff_date == t - days_old * DIA
            keep(alert) == ~alert.resolved \/ alert.resolved_at > cutoff_date
            resolved_to_remove == {k \in DOMAIN active_alerts :
                                      /\ active_alerts[k].resolved
                                      /\ active_alerts[k].resolved_at < cutoff_date}
        IN /\ alert_history' = SelectSeq(alert_history, keep)
           /\ active_alerts' = [k \in DOMAIN active_alerts \ resolved_to_remove |->
                                   active_alerts[k]]
           /\ now' = t
           /\ Returns("limpiar_alertas_antiguas", th, [days_old |-> days_old], "ok",
                      [cleaned_count |-> Len(alert_history) - Len(alert_history')
                                         + Cardinality(resolved_to_remove)])
    /\ UNCHANGED dbVars

InsumoDatosAlertas == {[nombre |-> Papel, cantidad_actual |-> 2]}

\* employees written without a cedula, as the repository accepts them
EmpleadoDatosAlertas == {[nombre_completo |-> Ana, cedula |-> <<>>],
                         [nombre_completo |-> Ana, cedula |-> <<" ">>]}

DiasAntiguedad == {0}

\* the reads that raise during one pass: none, one of them, or the first two
FallasDePasada ==
    {[falla_stock |-> FALSE, falla_entregas |-> FALSE, falla_consistencia |-> "ninguna"],
     [falla_stock |-> TRUE, falla_entregas |-> FALSE, falla_consistencia |-> "ninguna"],
     [falla_stock |-> FALSE, falla_entregas |-> TRUE, falla_consistencia |-> "ninguna"],
     [falla_stock |-> TRUE, falla_entregas |-> TRUE, falla_consistencia |-> "ninguna"],
     [falla_stock |-> FALSE, falla_entregas |-> FALSE, falla_consistencia |-> "listar_insumos"],
     [falla_stock |-> FALSE, falla_entregas |-> FALSE, falla_consistencia |-> "listar_empleados"]}

NextVerificacion ==
    \/ \E data \in InsumoDatosAlertas :
          /\ sqlite_sequence.insumos < MaxInsumos
          /\ InsumoRepositoryCreate(MainThread, data, 1000)
    \/ \E data \in EmpleadoDatosAlertas :
          /\ sqlite_sequence.empleados < MaxEmpleados
          /\ EmpleadoRepositoryCreate(MainThread, data, 1000 + Len(data.cedula))
    \/ \E f \in FallasDePasada :
          VerificarTodasLasAlertas(MainThread, f.falla_stock, f.falla_entregas,
                                   f.falla_consistencia)

SpecVerificacion == Init /\ [][NextVerificacion]_vars

\* the alerts a step appends to the history
AlertasNuevas == SubSeq(alert_history', Len(alert_history) + 1, Len(alert_history'))

\* a step that is a verification pass
EsPasada == last'.op = "verificar_todas_las_alertas" /\ Len(alert_history') >= Len(alert_history)

\* C21: in a verification pass every sub-check whose read raises (stock,
\* deliveries, data consistency) yields a SISTEMA_ERROR alert, the pass
\* returns normally, and the sub-checks that did not fail still add their
\* alerts.
C21_FallaConvertidaEnAlerta ==
    [][EsPasada =>
        LET fallas == (IF last'.args.falla_stock THEN 1 ELSE 0)
                      + (IF last'.args.falla_entregas THEN 1 ELSE 0)
                      + (IF last'.args.falla_consistencia # "ninguna" THEN 1 ELSE 0)
            errores == {k \in DOMAIN AlertasNuevas :
                           AlertasNuevas[k].alert_type = "SISTEMA_ERROR"}
        IN /\ last'.kind = "ok"
           /\ Cardinality(errores) = fallas
           /\ fallas > 0 =>
                \E k \in DOMAIN active_alerts' :
                    /\ active_alerts'[k].alert_type = "SISTEMA_ERROR"
                    /\ ~active_alerts'[k].resolved
           /\ ~last'.args.falla_stock =>
                \A i \in obtener_alertas_stock(insumos).bajas :
                    make_alert_key("STOCK_BAJO", i, <<>>) \in DOMAIN active_alerts'
           /\ (last'.args.falla_consistencia = "ninguna"
               /\ verificar_consistencia_datos(insumos, empleados, "ninguna") > 0) =>
                make_alert_key("DATA_INCONSISTENCY", 0, <<>>) \in DOMAIN active_alerts'
    ]_vars

\* C27: after a verification pass the active map holds one unresolved
\* DATA_INCONSISTENCY alert for each inconsistency the pass detected: the
\* alert of one inconsistency does not replace the alert of another.
C27_UnaAlertaPorInconsistencia ==
    [][EsPasada =>
        LET detectadas == verificar_consistencia_datos(insumos, empleados,
                                                       last'.args.falla_consistencia)
            alertas == {k \in DOMAIN active_alerts' :
                           /\ active_alerts'[k].alert_type = "DATA_INCONSISTENCY"
                           /\ ~active_alerts'[k].resolved}
        IN Cardinality(alertas) >= detectadas
    ]_vars

-----------------------------------------------------------------------------
(* Resolution and cleanup: one supply delivered down to nothing and         *)
(* replenished, passes, resolutions and the cleanup of old alerts           *)

NextResolucion ==
    \/ /\ sqlite_sequence.insumos < MaxInsumos
       /\ InsumoRepositoryCreate(MainThread, [nombre |-> Papel, cantidad_actual |-> 10],
                                 1000)
    \/ /\ sqlite_sequence.empleados < 1
       /\ EmpleadoRepositoryCreate(MainThread, [nombre_completo |-> Ana, cedula |-> Cedula1],
                                   1000)
    \/ \E data \in EntregaDatos :
          /\ sqlite_sequence.entregas < umbral_entregas_frecuentes_dia
          /\ EntregaRepositoryCreate(MainThread, data, 1000 + sqlite_sequence.entregas)
    \/ \E id \in 1..MaxInsumos :
          InsumoRepositoryUpdate(MainThread, id, [cantidad_actual |-> 10])
    \/ VerificarTodasLasAlertas(MainThread, FALSE, FALSE, "ninguna")
    \/ \E a \in DOMAIN active_alerts : ResolverAlerta(MainThread, a, "admin")
    \/ \E alert_type \in {"STOCK_BAJO", "ENTREGAS_FRECUENTES"} :
          ResolverAlertasPorTipo(MainThread, alert_type, "admin")
    \/ \E days_old \in DiasAntiguedad : LimpiarAlertasAntiguas(MainThread, days_old)

SpecResolucion == Init /\ [][NextResolucion]_vars

\* the stock-alert keys whose condition holds on the current rows
StockKeysVigentes ==
    {make_alert_key("STOCK_CRITICO", i, <<>>) : i \in obtener_alertas_stock(insumos).criticas}
    \cup {make_alert_key("STOCK_BAJO", i, <<>>) : i \in obtener_alertas_stock(insumos).bajas}

\* C24: when the alert under a key has been resolved and the condition of
\* the key holds during a later verification pass, the pass puts a fresh
\* unresolved alert under that key, which is listed as active.
C24_AlertaNuevaTrasResolver ==
    [][EsPasada =>
        \A key \in StockKeysVigentes :
            (key \in DOMAIN active_alerts /\ active_alerts[key].resolved)
               => /\ key \in DOMAIN active_alerts'
                  /\ ~active_alerts'[key].resolved
                  /\ active_alerts'[key] \in obtener_alertas_activas(active_alerts')
    ]_vars

AlertasDeCondicion == {"STOCK_CRITICO", "STOCK_BAJO", "ENTREGAS_FRECUENTES"}

\* C28: a verification pass leaves every stock and high-frequency alert of
\* the active map exactly as it was, whether or not its condition still
\* holds; and an unresolved one stays in the map, unresolved, through every
\* step that is not resolver_alerta or resolver_alertas_por_tipo.
C28_PasadaNoRetiraAlertas ==
    [][\A k \in DOMAIN active_alerts :
          active_alerts[k].alert_type \in AlertasDeCondicion =>
             /\ EsPasada => (k \in DOMAIN active_alerts' /\ active_alerts'[k] = active_alerts[k])
             /\ ~active_alerts[k].resolved =>
                  \/ k \in DOMAIN active_alerts' /\ ~active_alerts'[k].resolved
                  \/ last'.op \in {"resolver_alerta", "resolver_alertas_por_tipo"}
    ]_vars

\* C28 witness: the supply was delivered below its minimum and replenished
\* to 10, a pass has just run on the replenished stock, and the STOCK_BAJO
\* alert raised before is still unresolved in the map.
C28_Witness ==
    /\ last.op = "verificar_todas_las_alertas"
    /\ 1 \in DOMAIN insumos /\ insumos[1].cantidad_actual = 10
    /\ StockKeysVigentes = {}
    /\ entregas # <<>>
    /\ make_alert_key("STOCK_BAJO", 1, <<>>) \in DOMAIN active_alerts
    /\ ~active_alerts[make_alert_key("STOCK_BAJO", 1, <<>>)].resolved

-----------------------------------------------------------------------------
(* The thread-local connections: blocks run by two threads, and the        *)
(* closing of connections                                                  *)

\* close_connection: the calling thread's connection is closed and forgotten
close_connection(connections, t) == [connections EXCEPT ![t] = "none"]

\* close_all_connections, called by thread t outside any block
CloseAllConnections(t) ==
    /\ cursor[t].fase = "idle"
    /\ pc[t] = "idle"
    /\ local_connection' = close_connection(local_connection, t)
    /\ cursor' = [cursor EXCEPT ![t].evento = "close_all"]
    /\ UNCHANGED <<write_lock, appVars, schemaVars, backupVars>>

NextConexiones ==
    \/ \E t \in Threads : GetCursorBegin(t)
    \/ \E t \in Threads, stmt \in Sentencias : GetCursorExecute(t, stmt)
    \/ \E t \in Threads : GetCursorCommit(t)
    \/ \E t \in Threads : CloseAllConnections(t)

SpecConexiones == Init /\ [][NextConexiones]_vars

\* C22: when close_all_connections returns, no thread holds an open
\* connection, the threads that opened theirs lazily included.
C22_NingunaConexionAbierta ==
    [][\A t \in Threads :
          (cursor'[t].evento = "close_all" /\ cursor[t].evento # "close_all")
             => \A u \in Threads : local_connection'[u] = "none"]_vars

-----------------------------------------------------------------------------
(* Deliveries alone: one supply created with 10 units, an employee, and     *)
(* deliveries created from two threads; no stock update and no deletion     *)

CantidadInicial == InsumoForm(Papel, 10, 5, 50).cantidad_actual

NextSoloEntregas ==
    \/ /\ sqlite_sequence.insumos < MaxInsumos
       /\ CrearInsumoVerificar(MainThread, InsumoForm(Papel, 10, 5, 50))
    \/ CrearInsumoInsertar(MainThread)
    \/ CrearEmpleadoVerificar(MainThread, [nombre_completo |-> Ana, cedula |-> Cedula1])
    \/ CrearEmpleadoInsertar(MainThread)
    \/ \E t \in Threads, f \in EntregaForms : CrearEntregaVerificar(t, f)
    \/ \E t \in Threads : CrearEntregaInsertar(t)
    \/ \E t \in Threads : CrearEntregaLeer(t)

SpecSoloEntregas == Init /\ [][NextSoloEntregas]_vars

\* the sum of the quantities of the delivery rows with the given ids
RECURSIVE SumaCantidades(_, _)
SumaCantidades(ents, ids) ==
    IF ids = {} THEN 0
    ELSE LET d == CHOOSE x \in ids : TRUE
         IN ents[d].cantidad + SumaCantidades(ents, ids \ {d})

\* what the delivery rows that reference supply i add up to
Entregado(i) == SumaCantidades(entregas, {d \in DOMAIN entregas : entregas[d].insumo_id = i})

\* C26: with deliveries only being created, in every state and for every
\* supply, the cantidad_actual it was created with equals its current
\* cantidad_actual plus the quantities of the delivery rows that reference
\* it.
C26_ConservacionDeStock ==
    \A i \in DOMAIN insumos :
        CantidadInicial = insumos[i].cantidad_actual + Entregado(i)

\* C26 witness: a delivery of 2 and a delivery of 6 are recorded against the
\* supply created with 10, no call is in flight, and the stock is 2.
C26_Witness ==
    /\ Cardinality(DOMAIN entregas) = 2
    /\ {entregas[d].cantidad : d \in DOMAIN entregas} = {2, 6}
    /\ 1 \in DOMAIN insumos /\ insumos[1].cantidad_actual = 2
    /\ \A t \in Threads : pc[t] = "idle"

-----------------------------------------------------------------------------
(* Properties of the automatic-backup timers *)

\* C29: at most one automatic-backup timer is pending at any time.
C29_UnSoloTimer == Cardinality(DOMAIN timers) <= 1

\* C30: an automatic backup run starts only while automatic backup is
\* enabled: none starts between desactivar_backup_automatico and the next
\* activar_backup_automatico.
C30_SinCorridaTrasDesactivar ==
    [][(auto_run.fase = "idle" /\ auto_run'.fase = "running")
          => backup_service.auto_backup_enabled]_vars

====
